---------------------------- MODULE Spec2Model ----------------------------
(***************************************************************************)
(* A model of the lab generation pipeline of Lab_generate:                 *)
(*   - the data model of lab_models.py (field constraints),                *)
(*   - the template generator and the batch driver of generate_all_labs.py,*)
(*   - the prompted generator of services/lab_generation_service.py,       *)
(*   - the ingestion driver of ingestion.py,                               *)
(*   - the file utilities of utils/file_utils.py.                          *)
(*                                                                         *)
(* Python values are records tagged with their type: a str is              *)
(* [t |-> "str", s |-> <<characters>>], one one-character string per       *)
(* character, so that len(), lower(), title(), `in` and the regular        *)
(* expressions of sanitize_filename are computed character by character.   *)
(* Values of the Literal[...] fields and of int fields are TLA+ strings    *)
(* and integers.                                                           *)
(***************************************************************************)
EXTENDS Integers, Sequences, FiniteSets, TLC

VARIABLES
    pc,          \* where the program is: "idle", a position of a batch driver, "returned", "raised"
    call,        \* the operation entered from "idle" and its arguments
    ret,         \* what a directly called function returned
    driver,      \* the batch driver running: "generate_all_labs", "ingestion", "service_batch", or "none"
    concepts,    \* the concept dictionaries the loop iterates
    ctx,         \* personalization_context of the batch
    i,           \* enumerate index of the concept being handled (0 before the first)
    phase,       \* per concept state of generate_lab: "START", "BUILDING", "SUCCEEDED", "FAILED_FALLBACK", "RAISED"
    reply,       \* what self.llm.invoke produced for the current concept
    llm_calls,   \* number of llm.invoke calls made for the current concept
    outcome,     \* what generate_lab produced for the current concept: a result or an exception
    saved,       \* what organize_lab_output produced for the current concept
    results,     \* the results list of the driver
    successful,  \* the successful counter of the driver
    failed,      \* the failed counter of the driver
    files,       \* the file system under output_dir: path -> content
    summary,     \* the summary report written by create_summary_report
    log          \* history: per concept handled, what generate_lab and organize_lab_output produced

vars == <<pc, call, ret, driver, concepts, ctx, i, phase, reply, llm_calls,
          outcome, saved, results, successful, failed, files, summary, log>>

---------------------------------------------------------------------------
(* Bounds of the model. *)

\* number of concepts of an export
MaxConcepts == 2
\* the limits 0..MaxLimit given to the ingestion driver
MaxLimit == 1
\* definitions of length 0..MaxShort, and within Near of each length threshold
MaxShort == 2
Near == 1
\* section counts 1..MaxSections given to _estimate_time
MaxSections == 3
\* the longest of the enumerated names handed to sanitize_filename
MaxNameLen == 3

---------------------------------------------------------------------------
(* Python values. *)

PyNone == [t |-> "NoneType"]
PyStr(s) == [t |-> "str", s |-> s]
PyInt(n) == [t |-> "int", n |-> n]
PyList(xs) == [t |-> "list", items |-> xs]
PyDict(d) == [t |-> "dict", d |-> d]

IsStr(v) == v.t = "str"
IsNone(v) == v.t = "NoneType"
IsDict(v) == v.t = "dict"

\* truth value of a Python object, as `if x:` takes it
Truthy(v) ==
    CASE v.t = "NoneType" -> FALSE
      [] v.t = "str" -> v.s # <<>>
      [] v.t = "int" -> v.n # 0
      [] v.t = "list" -> v.items # <<>>
      [] v.t = "dict" -> DOMAIN v.d # {}

---------------------------------------------------------------------------
(* Text literals of the source, character by character. *)

KW_database ==
    <<"d","a","t","a","b","a","s","e">>
KW_algorithm ==
    <<"a","l","g","o","r","i","t","h","m">>
KW_system ==
    <<"s","y","s","t","e","m">>
KW_data ==
    <<"d","a","t","a">>
KW_processing ==
    <<"p","r","o","c","e","s","s","i","n","g">>
KW_analysis ==
    <<"a","n","a","l","y","s","i","s">>
KW_storage ==
    <<"s","t","o","r","a","g","e">>
KW_framework ==
    <<"f","r","a","m","e","w","o","r","k">>
KW_model ==
    <<"m","o","d","e","l">>
KW_technique ==
    <<"t","e","c","h","n","i","q","u","e">>
TXT_None ==
    <<"N","o","n","e">>
TXT_NoneType ==
    <<"N","o","n","e","T","y","p","e">>
TXT_int ==
    <<"i","n","t">>
TXT_lower ==
    <<"l","o","w","e","r">>
TXT_title ==
    <<"t","i","t","l","e">>
TXT_HandsOnLab ==
    <<"H","a","n","d","s","-","O","n"," ","L","a","b",":"," ">>
TXT_in ==
    <<" ","i","n"," ">>
TXT_Exploring ==
    <<"E","x","p","l","o","r","i","n","g"," ">>
TXT_UnderstandFundamentals ==
    <<"U","n","d","e","r","s","t","a","n","d"," ","t","h","e"," ","f","u","n",
    "d","a","m","e","n","t","a","l","s"," ","o","f"," ">>
TXT_Apply ==
    <<"A","p","p","l","y"," ">>
TXT_inPractical ==
    <<" ","i","n"," ","p","r","a","c","t","i","c","a","l"," ","s","c","e","n",
    "a","r","i","o","s">>
TXT_ImplementSolutions ==
    <<"I","m","p","l","e","m","e","n","t"," ","s","o","l","u","t","i","o","n",
    "s"," ","u","s","i","n","g"," ">>
TXT_ImplementBasic ==
    <<"I","m","p","l","e","m","e","n","t"," ","a"," ","b","a","s","i","c"," ",
    "e","x","a","m","p","l","e"," ","d","e","m","o","n","s","t","r","a","t",
    "i","n","g"," ">>
TXT_TodoImplement ==
    <<"#"," ","T","O","D","O",":"," ","I","m","p","l","e","m","e","n","t",
    " ">>
TXT_YourCodeHere ==
    <<"\n","#"," ","Y","o","u","r"," ","c","o","d","e"," ","h","e","r","e",
    "\n">>
TXT_SolutionFor ==
    <<"#"," ","S","o","l","u","t","i","o","n"," ","f","o","r"," ">>
TXT_ImplementationDetails ==
    <<"\n","#"," ","I","m","p","l","e","m","e","n","t","a","t","i","o","n",
    " ","d","e","t","a","i","l","s","\n">>
TXT_toSolve ==
    <<" ","t","o"," ","s","o","l","v","e"," ","a"," ","r","e","a","l","-","w",
    "o","r","l","d"," ","p","r","o","b","l","e","m">>
TXT_ChallengeAdvanced ==
    <<"#"," ","C","h","a","l","l","e","n","g","e",":"," ","A","d","v","a","n",
    "c","e","d"," ">>
TXT_Newline ==
    <<"\n">>
TXT_AdvancedSolution ==
    <<"#"," ","A","d","v","a","n","c","e","d"," ","s","o","l","u","t","i","o",
    "n","\n">>
TXT_BasicProgrammingKnowledge ==
    <<"B","a","s","i","c"," ","p","r","o","g","r","a","m","m","i","n","g"," ",
    "k","n","o","w","l","e","d","g","e">>
TXT_UnderstandingOfDatabases ==
    <<"U","n","d","e","r","s","t","a","n","d","i","n","g"," ","o","f"," ","d",
    "a","t","a","b","a","s","e","s">>
TXT_Python ==
    <<"P","y","t","h","o","n">>
TXT_JupyterNotebook ==
    <<"J","u","p","y","t","e","r"," ","N","o","t","e","b","o","o","k">>
TXT_template ==
    <<"t","e","m","p","l","a","t","e">>
TXT_IntroductionTo ==
    <<"I","n","t","r","o","d","u","c","t","i","o","n"," ","t","o"," ">>
TXT_Learning ==
    <<"L","e","a","r","n","i","n","g"," ">>
TXT_Explore ==
    <<"E","x","p","l","o","r","e"," ">>
TXT_TodoImplementNl ==
    <<"#"," ","T","O","D","O",":"," ","I","m","p","l","e","m","e","n","t",
    "\n">>
TXT_SolutionNl ==
    <<"#"," ","S","o","l","u","t","i","o","n","\n">>
TXT_Understand ==
    <<"U","n","d","e","r","s","t","a","n","d"," ">>
TXT_ThisLabIntroduces ==
    <<"T","h","i","s"," ","l","a","b"," ","i","n","t","r","o","d","u","c","e",
    "s"," ">>
TXT_BasicProgramming ==
    <<"B","a","s","i","c"," ","p","r","o","g","r","a","m","m","i","n","g">>
TXT_LearnTheBasics ==
    <<"L","e","a","r","n"," ","t","h","e"," ","b","a","s","i","c","s"," ","o",
    "f"," ">>
TXT_TodoImplementYourSolution ==
    <<"#"," ","T","O","D","O",":"," ","I","m","p","l","e","m","e","n","t"," ",
    "y","o","u","r"," ","s","o","l","u","t","i","o","n"," ","h","e","r","e",
    "\n">>
TXT_SolutionWillBeProvided ==
    <<"#"," ","S","o","l","u","t","i","o","n"," ","w","i","l","l"," ","b","e",
    " ","p","r","o","v","i","d","e","d">>
TXT_gpt4 ==
    <<"g","p","t","-","4">>
TXT_Unknown ==
    <<"U","n","k","n","o","w","n">>
TXT_ObjectHasNoAttribute ==
    <<"'"," ","o","b","j","e","c","t"," ","h","a","s"," ","n","o"," ","a","t",
    "t","r","i","b","u","t","e"," ","'">>
TXT_Quote ==
    <<"'">>
TXT_ValidationError ==
    <<" ","v","a","l","i","d","a","t","i","o","n"," ","e","r","r","o","r">>
TXT_Plural ==
    <<"s">>
TXT_For ==
    <<" ","f","o","r"," ">>
TXT_LabExercise ==
    <<"L","a","b","E","x","e","r","c","i","s","e">>
TXT_LabSection ==
    <<"L","a","b","S","e","c","t","i","o","n">>
TXT_PersonalizedLab ==
    <<"P","e","r","s","o","n","a","l","i","z","e","d","L","a","b">>
TXT_LabGenerationMetadata ==
    <<"L","a","b","G","e","n","e","r","a","t","i","o","n","M","e","t","a","d",
    "a","t","a">>
TXT_InvalidJsonOutput ==
    <<"I","n","v","a","l","i","d"," ","j","s","o","n"," ","o","u","t","p","u",
    "t">>
UPPERCASE ==
    <<"A","B","C","D","E","F","G","H","I","J","K","L","M","N","O","P","Q","R",
    "S","T","U","V","W","X","Y","Z">>
LOWERCASE ==
    <<"a","b","c","d","e","f","g","h","i","j","k","l","m","n","o","p","q","r",
    "s","t","u","v","w","x","y","z">>
DIGITS ==
    <<"0","1","2","3","4","5","6","7","8","9">>
TXT_LabJson ==
    <<"_","l","a","b",".","j","s","o","n">>
TXT_LabContentJson ==
    <<"l","a","b","_","c","o","n","t","e","n","t",".","j","s","o","n">>
TXT_GenerationSummaryJson ==
    <<"g","e","n","e","r","a","t","i","o","n","_","s","u","m","m","a","r","y",
    ".","j","s","o","n">>
TXT_PermissionDenied ==
    <<"[","E","r","r","n","o"," ","1","3","]"," ","P","e","r","m","i","s","s",
    "i","o","n"," ","d","e","n","i","e","d">>
TXT_KeyErrorResult ==
    <<"'","r","e","s","u","l","t","'">>
TXT_replace ==
    <<"r","e","p","l","a","c","e">>
TXT_RequestTimedOut ==
    <<"R","e","q","u","e","s","t"," ","t","i","m","e","d"," ","o","u","t",
    ".">>
TXT_SystemDesign ==
    <<"S","y","s","t","e","m"," ","D","e","s","i","g","n">>
TXT_aDatabaseTechnique ==
    <<"a"," ","d","a","t","a","b","a","s","e"," ","t","e","c","h","n","i","q",
    "u","e">>
TXT_CapTheorem ==
    <<"C","A","P"," ","T","h","e","o","r","e","m","!","!">>
TXT_CapTheoremPlain ==
    <<"C","A","P"," ","T","h","e","o","r","e","m">>
TXT_Bangs ==
    <<"!","!">>
TXT_Consistency ==
    <<"C","o","n","s","i","s","t","e","n","c","y",","," ","A","v","a","i","l",
    "a","b","i","l","i","t","y">>
TXT_NoSqlDatabase ==
    <<"N","o","S","Q","L"," ","D","a","t","a","b","a","s","e">>
TXT_BigDATA ==
    <<"B","i","g"," ","D","A","T","A">>
TXT_Sharding ==
    <<"S","h","a","r","d","i","n","g">>
TXT_MapReduce ==
    <<"M","a","p"," ","R","e","d","u","c","e">>
TXT_keepsThingsInStorage ==
    <<"k","e","e","p","s"," ","t","h","i","n","g","s"," ","i","n"," ","S","T",
    "O","R","A","G","E">>
TXT_gaming ==
    <<"g","a","m","i","n","g">>
TXT_Intro ==
    <<"I","n","t","r","o">>
TXT_Graphs ==
    <<"G","r","a","p","h","s">>
TXT_evidence ==
    <<"e","v","i","d","e","n","c","e">>
TXT_LabTitle ==
    <<"L","a","b">>
TXT_ApiKeyNotSet ==
    <<"O","P","E","N","A","I","_","A","P","I","_","K","E","Y"," ","e","n","v",
    "i","r","o","n","m","e","n","t"," ","v","a","r","i","a","b","l","e"," ",
    "n","o","t"," ","s","e","t">>
TXT_ApiKey ==
    <<"s","k","-","t","e","s","t">>

---------------------------------------------------------------------------
(* Operations of str. *)

RangeOf(s) == {s[k] : k \in 1..Len(s)}

IsUpper(c) == c \in RangeOf(UPPERCASE)
IsLower(c) == c \in RangeOf(LOWERCASE)
IsDigit(c) == c \in RangeOf(DIGITS)
IsCased(c) == IsUpper(c) \/ IsLower(c)

LowerChar(c) ==
    IF IsUpper(c)
    THEN LOWERCASE[CHOOSE k \in 1..Len(UPPERCASE) : UPPERCASE[k] = c]
    ELSE c

UpperChar(c) ==
    IF IsLower(c)
    THEN UPPERCASE[CHOOSE k \in 1..Len(LOWERCASE) : LOWERCASE[k] = c]
    ELSE c

\* str.lower()
lower(s) == [k \in 1..Len(s) |-> LowerChar(s[k])]

\* str.title(): a cased character is upper-cased when it follows an uncased
\* character (or starts the string) and lower-cased otherwise
title(s) ==
    [k \in 1..Len(s) |->
        IF k = 1 \/ ~IsCased(s[k - 1]) THEN UpperChar(s[k]) ELSE LowerChar(s[k])]

\* needle in hay
Contains(hay, needle) ==
    \E k \in 0..(Len(hay) - Len(needle)) :
        \A j \in 1..Len(needle) : hay[k + j] = needle[j]

\* type(v).__name__
TypeName(v) ==
    CASE v.t = "NoneType" -> TXT_NoneType
      [] v.t = "int" -> TXT_int

\* str(v) as an f-string replacement field renders it
RECURSIVE Decimal(_)
Decimal(n) == IF n < 10 THEN <<DIGITS[n + 1]>> ELSE Decimal(n \div 10) \o <<DIGITS[(n % 10) + 1]>>

Format(v) ==
    CASE v.t = "str" -> v.s
      [] v.t = "NoneType" -> TXT_None
      [] v.t = "int" -> Decimal(v.n)

\* str(e) of the AttributeError raised by v.attr on a value without it
AttributeErrorMsg(v, attr) ==
    TXT_Quote \o TypeName(v) \o TXT_ObjectHasNoAttribute \o attr \o TXT_Quote

\* first line of str(e) of a pydantic ValidationError that reports n errors
\* for the model class: the count, "validation error" in the singular for
\* one error and in the plural otherwise, and the class name
ValidationErrorMsg(cls, n) ==
    Decimal(n) \o TXT_ValidationError \o (IF n = 1 THEN <<>> ELSE TXT_Plural) \o TXT_For \o cls

\* what a call produced: a returned value or a raised exception with its str(e)
Return(v) == [raised |-> FALSE, value |-> v]
Raise(msg) == [raised |-> TRUE, error |-> msg]

---------------------------------------------------------------------------
(* lab_models.py: the field constraints pydantic enforces at construction. *)

ExerciseTypes == {"guided", "challenge", "exploration"}
Difficulties == {"easy", "medium", "hard"}
ScaffoldingLevels == {"low", "medium", "high"}

OptionalStr(v) == IsNone(v) \/ IsStr(v)

Has(d, f) == f \in DOMAIN d

\* a keyword argument or dict entry, or the field's default when it is absent
Get(d, f, default) == IF Has(d, f) THEN d[f] ELSE default

\* one error for a field whose value is rejected
Err(ok) == IF ok THEN 0 ELSE 1

\* the errors of an Optional[List[...]] field: one for a value that is no
\* list, one for every item of another type
ListErrors(v, item_type) ==
    IF IsNone(v) THEN 0
    ELSE IF v.t # "list" THEN 1
    ELSE Cardinality({k \in 1..Len(v.items) : v.items[k].t # item_type})

RECURSIVE Sum(_)
Sum(ns) == IF ns = <<>> THEN 0 ELSE Head(ns) + Sum(Tail(ns))

\* the errors pydantic reports for LabExercise(**d), one per rejected field
\* and per rejected list item
LabExerciseErrors(d) ==
    Err(Has(d, "type") /\ d.type \in ExerciseTypes)
    + Err(Has(d, "hints") /\ d.hints \in 0..5)
    + Err(OptionalStr(Get(d, "description", PyNone)))
    + Err(OptionalStr(Get(d, "starter_code", PyNone)))
    + Err(OptionalStr(Get(d, "solution", PyNone)))
    + ListErrors(Get(d, "test_cases", PyNone), "dict")

\* the errors of the field exercises, a List[LabExercise] with min_length=1
\* whose items are given as dictionaries: one when it is missing or empty,
\* else those of its items
ExercisesErrors(d) ==
    IF ~Has(d, "exercises") \/ d.exercises = <<>> THEN 1
    ELSE Sum([k \in 1..Len(d.exercises) |-> LabExerciseErrors(d.exercises[k])])

\* the errors pydantic reports for LabSection(**d), those of the exercises
\* given as dictionaries included
LabSectionErrors(d) ==
    Err(Has(d, "concept") /\ IsStr(d.concept))
    + Err(Has(d, "title") /\ IsStr(d.title))
    + Err(Has(d, "difficulty") /\ d.difficulty \in Difficulties)
    + Err(Has(d, "scaffolding_level") /\ d.scaffolding_level \in ScaffoldingLevels)
    + ExercisesErrors(d)
    + ListErrors(Get(d, "learning_objectives", PyNone), "str")
    + Err(OptionalStr(Get(d, "background", PyNone)))

\* the errors of the field sections, a List[LabSection] with min_length=1
SectionsErrors(d) ==
    IF ~Has(d, "sections") \/ d.sections = <<>> THEN 1
    ELSE Sum([k \in 1..Len(d.sections) |-> LabSectionErrors(d.sections[k])])

\* the errors pydantic reports for PersonalizedLab(**d), those of the
\* sections given as dictionaries included
PersonalizedLabErrors(d) ==
    Err(Has(d, "title") /\ IsStr(d.title))
    + Err(Has(d, "topic") /\ IsStr(d.topic))
    + Err(Has(d, "difficulty") /\ d.difficulty \in Difficulties)
    + Err(Has(d, "estimated_time") /\ d.estimated_time >= 15 /\ d.estimated_time <= 180)
    + SectionsErrors(d)
    + ListErrors(Get(d, "prerequisites", PyNone), "str")
    + ListErrors(Get(d, "technologies", PyNone), "str")
    + Err(OptionalStr(Get(d, "personalization_context", PyNone)))

\* the errors pydantic reports for LabGenerationMetadata(**d)
LabGenerationMetadataErrors(d) ==
    Err(IsStr(d.concept_name))
    + Err(IsStr(d.concept_definition))
    + Err(IsStr(d.source_topic))
    + Err(OptionalStr(d.model_used))

\* LabExercise(**d) validates
ValidLabExercise(d) == LabExerciseErrors(d) = 0

\* the LabExercise object built from valid d
LabExercise(d) ==
    [type |-> d.type,
     hints |-> d.hints,
     description |-> Get(d, "description", PyNone),
     starter_code |-> Get(d, "starter_code", PyNone),
     solution |-> Get(d, "solution", PyNone),
     test_cases |-> Get(d, "test_cases", PyNone)]

\* LabSection(**d) validates
ValidLabSection(d) == LabSectionErrors(d) = 0

LabSection(d) ==
    [concept |-> d.concept,
     title |-> d.title,
     difficulty |-> d.difficulty,
     scaffolding_level |-> d.scaffolding_level,
     exercises |-> [k \in 1..Len(d.exercises) |-> LabExercise(d.exercises[k])],
     learning_objectives |-> Get(d, "learning_objectives", PyNone),
     background |-> Get(d, "background", PyNone)]

\* PersonalizedLab(**d) validates
ValidPersonalizedLab(d) == PersonalizedLabErrors(d) = 0

PersonalizedLab(d) ==
    [title |-> d.title,
     topic |-> d.topic,
     difficulty |-> d.difficulty,
     estimated_time |-> d.estimated_time,
     sections |-> [k \in 1..Len(d.sections) |-> LabSection(d.sections[k])],
     prerequisites |-> Get(d, "prerequisites", PyNone),
     technologies |-> Get(d, "technologies", PyNone),
     personalization_context |-> Get(d, "personalization_context", PyNone)]

\* LabGenerationMetadata(**d) validates
ValidLabGenerationMetadata(d) == LabGenerationMetadataErrors(d) = 0

\* a CompleteLabResult whose error defaults to the empty string
CompleteLabResult_error_str(lab, metadata, success, error) ==
    [lab |-> lab, metadata |-> metadata, success |-> success,
     error |-> IF IsNone(error) THEN PyStr(<<>>) ELSE error]

\* CompleteLabResult(lab, metadata, success, error); error defaults to None
CompleteLabResult(lab, metadata, success, error) ==
    [lab |-> lab, metadata |-> metadata, success |-> success, error |-> error]

---------------------------------------------------------------------------
(* generate_all_labs.py: TemplateLabGenerator. *)

\* difficulty_map with 'system' moved to the front of the table
difficulty_map_system_first ==
    << [keyword |-> KW_system,     difficulty |-> "hard"],
       [keyword |-> KW_database,   difficulty |-> "medium"],
       [keyword |-> KW_algorithm,  difficulty |-> "hard"],
       [keyword |-> KW_data,       difficulty |-> "easy"],
       [keyword |-> KW_processing, difficulty |-> "medium"],
       [keyword |-> KW_analysis,   difficulty |-> "medium"],
       [keyword |-> KW_storage,    difficulty |-> "easy"],
       [keyword |-> KW_framework,  difficulty |-> "medium"],
       [keyword |-> KW_model,      difficulty |-> "hard"],
       [keyword |-> KW_technique,  difficulty |-> "medium"] >>

\* self.difficulty_map, in insertion order (the order dict.items() iterates)
difficulty_map ==
    << [keyword |-> KW_database,   difficulty |-> "medium"],
       [keyword |-> KW_algorithm,  difficulty |-> "hard"],
       [keyword |-> KW_system,     difficulty |-> "hard"],
       [keyword |-> KW_data,       difficulty |-> "easy"],
       [keyword |-> KW_processing, difficulty |-> "medium"],
       [keyword |-> KW_analysis,   difficulty |-> "medium"],
       [keyword |-> KW_storage,    difficulty |-> "easy"],
       [keyword |-> KW_framework,  difficulty |-> "medium"],
       [keyword |-> KW_model,      difficulty |-> "hard"],
       [keyword |-> KW_technique,  difficulty |-> "medium"] >>

\* the for loop over difficulty_map.items() from its k-th item on: the
\* difficulty of the first keyword found, or "" when the loop falls through
RECURSIVE KeywordLoop(_, _, _)
KeywordLoop(concept_lower, definition_lower, k) ==
    IF k > Len(difficulty_map) THEN ""
    ELSE IF \/ Contains(concept_lower, difficulty_map[k].keyword)
            \/ Contains(definition_lower, difficulty_map[k].keyword)
         THEN difficulty_map[k].difficulty
         ELSE KeywordLoop(concept_lower, definition_lower, k + 1)

\* _determine_difficulty searching the texts as given, without lower()
_determine_difficulty_case_sensitive(concept_name, definition) ==
    LET found == KeywordLoop(concept_name, definition, 1)
    IN  IF found # "" THEN found
        ELSE IF Len(definition) > 200 THEN "hard"
        ELSE IF Len(definition) > 100 THEN "medium"
        ELSE "easy"

\* _determine_difficulty with >= in place of > in the length fallback
_determine_difficulty_inclusive(concept_name, definition) ==
    LET found == KeywordLoop(lower(concept_name), lower(definition), 1)
    IN  IF found # "" THEN found
        ELSE IF Len(definition) >= 200 THEN "hard"
        ELSE IF Len(definition) >= 100 THEN "medium"
        ELSE "easy"

\* _determine_difficulty(concept_name, definition), both str
_determine_difficulty(concept_name, definition) ==
    LET concept_lower == lower(concept_name)
        definition_lower == lower(definition)
        found == KeywordLoop(concept_lower, definition_lower, 1)
    IN  IF found # "" THEN found
        ELSE IF Len(definition) > 200 THEN "hard"
        ELSE IF Len(definition) > 100 THEN "medium"
        ELSE "easy"

\* base_time.get(difficulty, 45)
base_time(difficulty) ==
    CASE difficulty = "easy" -> 30
      [] difficulty = "medium" -> 45
      [] difficulty = "hard" -> 60
      [] OTHER -> 45

\* _estimate_time charging 15 minutes for every section, the first included
_estimate_time_every_section(difficulty, num_sections) ==
    base_time(difficulty) + num_sections * 15

_estimate_time(difficulty, num_sections) ==
    base_time(difficulty) + (num_sections - 1) * 15

\* the dict {"input": "test_input", "expected": "expected_output"}
SampleTestCase == PyDict([input |-> "test_input", expected |-> "expected_output"])

\* _create_exercises appending the challenge exercise for every difficulty
_create_exercises_challenge_for_all(concept_name, difficulty, personalization_context) ==
    LET n == Format(concept_name)
    IN  << [type |-> "guided",
            hints |-> IF difficulty = "easy" THEN 3 ELSE 2,
            description |-> PyStr(TXT_ImplementBasic \o n),
            starter_code |-> PyStr(TXT_TodoImplement \o n \o TXT_YourCodeHere),
            solution |-> PyStr(TXT_SolutionFor \o n \o TXT_ImplementationDetails),
            test_cases |-> PyList(<<SampleTestCase>>)],
           [type |-> "challenge",
            hints |-> 1,
            description |-> PyStr(TXT_Apply \o n \o TXT_toSolve),
            starter_code |-> PyStr(TXT_ChallengeAdvanced \o n \o TXT_Newline),
            solution |-> PyStr(TXT_AdvancedSolution),
            test_cases |-> PyList(<<>>)] >>

\* _create_exercises: the keyword arguments of each LabExercise, in list order
_create_exercises(concept_name, difficulty, personalization_context) ==
    LET n == Format(concept_name)
        guided ==
            [type |-> "guided",
             hints |-> IF difficulty = "easy" THEN 3 ELSE 2,
             description |-> PyStr(TXT_ImplementBasic \o n),
             starter_code |-> PyStr(TXT_TodoImplement \o n \o TXT_YourCodeHere),
             solution |-> PyStr(TXT_SolutionFor \o n \o TXT_ImplementationDetails),
             test_cases |-> PyList(<<SampleTestCase>>)]
        challenge ==
            [type |-> "challenge",
             hints |-> 1,
             description |-> PyStr(TXT_Apply \o n \o TXT_toSolve),
             starter_code |-> PyStr(TXT_ChallengeAdvanced \o n \o TXT_Newline),
             solution |-> PyStr(TXT_AdvancedSolution),
             test_cases |-> PyList(<<>>)]
    IN  IF difficulty \in {"medium", "hard"} THEN <<guided, challenge>> ELSE <<guided>>

\* _create_minimal_lab: the keyword arguments of the fallback PersonalizedLab
MinimalLabArgs(concept_name, topic) ==
    LET n == Format(concept_name)
    IN  [title |-> PyStr(TXT_IntroductionTo \o n),
         topic |-> topic,
         difficulty |-> "medium",
         estimated_time |-> 45,
         sections |-> <<
            [concept |-> concept_name,
             title |-> PyStr(TXT_Learning \o n),
             difficulty |-> "medium",
             scaffolding_level |-> "medium",
             exercises |-> <<
                [type |-> "guided",
                 hints |-> 3,
                 description |-> PyStr(TXT_Explore \o n),
                 starter_code |-> PyStr(TXT_TodoImplementNl),
                 solution |-> PyStr(TXT_SolutionNl),
                 test_cases |-> PyList(<<>>)] >>,
             learning_objectives |-> PyList(<<PyStr(TXT_Understand \o n)>>),
             background |-> PyStr(TXT_ThisLabIntroduces \o n)] >>,
         prerequisites |-> PyList(<<PyStr(TXT_BasicProgramming)>>),
         technologies |-> PyList(<<PyStr(TXT_Python)>>),
         personalization_context |-> PyNone]

\* _create_minimal_lab(concept_name, topic): the lab, or the ValidationError
\* of the first constructor that rejects its arguments (the section is built
\* before the lab that holds it)
_create_minimal_lab(concept_name, topic) ==
    LET d == MinimalLabArgs(concept_name, topic)
    IN  IF ~ValidLabSection(d.sections[1])
        THEN Raise(ValidationErrorMsg(TXT_LabSection, LabSectionErrors(d.sections[1])))
        ELSE IF ~ValidPersonalizedLab(d)
        THEN Raise(ValidationErrorMsg(TXT_PersonalizedLab, PersonalizedLabErrors(d)))
        ELSE Return(PersonalizedLab(d))

\* the metadata keyword arguments both generators pass
MetadataArgs(concept_name, concept_definition, topic, model_used, applied) ==
    [concept_name |-> concept_name,
     concept_definition |-> concept_definition,
     source_topic |-> topic,
     model_used |-> model_used,
     personalization_applied |-> applied]

\* the try block of TemplateLabGenerator.generate_lab
TemplateTry(concept_name, concept_definition, topic, personalization_context) ==
    IF ~IsStr(concept_name) THEN Raise(AttributeErrorMsg(concept_name, TXT_lower))
    ELSE IF ~IsStr(concept_definition) THEN Raise(AttributeErrorMsg(concept_definition, TXT_lower))
    ELSE IF Truthy(personalization_context) /\ ~IsStr(personalization_context)
         THEN Raise(AttributeErrorMsg(personalization_context, TXT_title))
    ELSE
    LET difficulty == _determine_difficulty(concept_name.s, concept_definition.s)
        lab_title ==
            IF Truthy(personalization_context)
            THEN PyStr(TXT_HandsOnLab \o concept_name.s \o TXT_in \o title(personalization_context.s))
            ELSE PyStr(TXT_HandsOnLab \o concept_name.s)
        exercises == _create_exercises(concept_name, difficulty, personalization_context)
        section ==
            [concept |-> concept_name,
             title |-> PyStr(TXT_Exploring \o concept_name.s),
             difficulty |-> difficulty,
             scaffolding_level |-> "medium",
             exercises |-> exercises,
             learning_objectives |-> PyList(<<
                 PyStr(TXT_UnderstandFundamentals \o concept_name.s),
                 PyStr(TXT_Apply \o concept_name.s \o TXT_inPractical),
                 PyStr(TXT_ImplementSolutions \o concept_name.s) >>),
             background |-> concept_definition]
        lab ==
            [title |-> lab_title,
             topic |-> topic,
             difficulty |-> difficulty,
             estimated_time |-> _estimate_time(difficulty, 1),
             sections |-> <<section>>,
             prerequisites |-> PyList(<<PyStr(TXT_BasicProgrammingKnowledge),
                                        PyStr(TXT_UnderstandingOfDatabases)>>),
             technologies |-> PyList(<<PyStr(TXT_Python), PyStr(TXT_JupyterNotebook)>>),
             personalization_context |-> personalization_context]
        metadata ==
            MetadataArgs(concept_name, concept_definition, topic, PyStr(TXT_template),
                         ~IsNone(personalization_context))
        rejected == {k \in 1..Len(exercises) : ~ValidLabExercise(exercises[k])}
        first == CHOOSE k \in rejected : \A j \in rejected : k <= j
    IN  IF rejected # {}
        THEN Raise(ValidationErrorMsg(TXT_LabExercise, LabExerciseErrors(exercises[first])))
        ELSE IF ~ValidLabSection(section)
        THEN Raise(ValidationErrorMsg(TXT_LabSection, LabSectionErrors(section)))
        ELSE IF ~ValidPersonalizedLab(lab)
        THEN Raise(ValidationErrorMsg(TXT_PersonalizedLab, PersonalizedLabErrors(lab)))
        ELSE IF ~ValidLabGenerationMetadata(metadata)
             THEN Raise(ValidationErrorMsg(TXT_LabGenerationMetadata,
                                         LabGenerationMetadataErrors(metadata)))
        ELSE Return(CompleteLabResult(PersonalizedLab(lab), metadata, TRUE, PyNone))

\* the except block of TemplateLabGenerator.generate_lab, e being str(e) of
\* the exception caught: an exception raised here leaves generate_lab
TemplateExcept(concept_name, concept_definition, topic, e) ==
    LET lab == _create_minimal_lab(concept_name, topic)
        metadata ==
            MetadataArgs(concept_name, concept_definition, topic, PyStr(TXT_template), FALSE)
    IN  IF lab.raised THEN lab
        ELSE IF ~ValidLabGenerationMetadata(metadata)
             THEN Raise(ValidationErrorMsg(TXT_LabGenerationMetadata,
                                         LabGenerationMetadataErrors(metadata)))
        ELSE Return(CompleteLabResult(lab.value, metadata, FALSE, PyStr(e)))

\* generate_lab without its except block
TemplateLabGenerator_generate_lab_no_handler(concept_name, concept_definition, topic, personalization_context) ==
    TemplateTry(concept_name, concept_definition, topic, personalization_context)

\* TemplateLabGenerator.generate_lab: what the call produces
TemplateLabGenerator_generate_lab(concept_name, concept_definition, topic, personalization_context) ==
    LET attempt == TemplateTry(concept_name, concept_definition, topic, personalization_context)
    IN  IF attempt.raised
        THEN TemplateExcept(concept_name, concept_definition, topic, attempt.error)
        ELSE attempt

---------------------------------------------------------------------------
(* services/lab_generation_service.py: LabGenerationService. *)

\* self.model_name, the default of __init__ and of the ingestion entry point
model_name == PyStr(TXT_gpt4)

\* a constructor that hands whatever os.getenv gave to the client
LabGenerationService_init_unchecked(api_key) ==
    Return([model_name |-> model_name, api_key |-> api_key])

\* LabGenerationService.__init__, api_key being os.getenv("OPENAI_API_KEY"):
\* it raises ValueError when the variable is unset or empty
LabGenerationService_init(api_key) ==
    IF ~Truthy(api_key) THEN Raise(TXT_ApiKeyNotSet)
    ELSE Return([model_name |-> model_name, api_key |-> api_key])

\* _create_fallback_lab: the keyword arguments of the fallback PersonalizedLab
FallbackLabArgs(concept_name, topic) ==
    LET n == Format(concept_name)
    IN  [title |-> PyStr(TXT_IntroductionTo \o n),
         topic |-> topic,
         difficulty |-> "medium",
         estimated_time |-> 45,
         sections |-> <<
            [concept |-> concept_name,
             title |-> PyStr(TXT_Exploring \o n),
             difficulty |-> "medium",
             scaffolding_level |-> "medium",
             exercises |-> <<
                [type |-> "guided",
                 hints |-> 3,
                 description |-> PyStr(TXT_LearnTheBasics \o n),
                 starter_code |-> PyStr(TXT_TodoImplementYourSolution),
                 solution |-> PyStr(TXT_SolutionWillBeProvided),
                 test_cases |-> PyList(<<>>)] >>,
             learning_objectives |-> PyList(<<PyStr(TXT_Understand \o n)>>),
             background |-> PyStr(TXT_ThisLabIntroduces \o n)] >>,
         prerequisites |-> PyList(<<PyStr(TXT_BasicProgrammingKnowledge)>>),
         technologies |-> PyList(<<PyStr(TXT_Python), PyStr(TXT_JupyterNotebook)>>),
         personalization_context |-> PyNone]

\* _create_fallback_lab(concept_name, topic): the lab, or the ValidationError
\* of the first constructor that rejects its arguments
_create_fallback_lab(concept_name, topic) ==
    LET d == FallbackLabArgs(concept_name, topic)
    IN  IF ~ValidLabSection(d.sections[1])
        THEN Raise(ValidationErrorMsg(TXT_LabSection, LabSectionErrors(d.sections[1])))
        ELSE IF ~ValidPersonalizedLab(d)
        THEN Raise(ValidationErrorMsg(TXT_PersonalizedLab, PersonalizedLabErrors(d)))
        ELSE Return(PersonalizedLab(d))

\* the try block of LabGenerationService.generate_lab, given what
\* self.llm.invoke(prompt) did: r.kind = "raise" (it raised, str(e) = r.msg),
\* or "content" with r.json telling whether self.parser.parse accepts the
\* content and r.data the parsed dictionary
ServiceTry(concept_name, concept_definition, topic, personalization_context, r) ==
    IF r.kind = "raise" THEN Raise(r.msg)
    ELSE IF ~r.json THEN Raise(TXT_InvalidJsonOutput)
    ELSE IF ~ValidPersonalizedLab(r.data)
    THEN Raise(ValidationErrorMsg(TXT_PersonalizedLab, PersonalizedLabErrors(r.data)))
    ELSE
    LET metadata ==
            MetadataArgs(concept_name, concept_definition, topic, model_name,
                         ~IsNone(personalization_context))
    IN  IF ~ValidLabGenerationMetadata(metadata)
        THEN Raise(ValidationErrorMsg(TXT_LabGenerationMetadata,
                                         LabGenerationMetadataErrors(metadata)))
        ELSE Return(CompleteLabResult(PersonalizedLab(r.data), metadata, TRUE, PyNone))

\* the except block of LabGenerationService.generate_lab, e being str(e) of
\* the exception caught: an exception raised here leaves generate_lab
ServiceExcept(concept_name, concept_definition, topic, e) ==
    LET lab == _create_fallback_lab(concept_name, topic)
        metadata == MetadataArgs(concept_name, concept_definition, topic, model_name, FALSE)
    IN  IF lab.raised THEN lab
        ELSE IF ~ValidLabGenerationMetadata(metadata)
             THEN Raise(ValidationErrorMsg(TXT_LabGenerationMetadata,
                                         LabGenerationMetadataErrors(metadata)))
        ELSE Return(CompleteLabResult(lab.value, metadata, FALSE, PyStr(e)))

\* LabGenerationService.generate_lab: what the call produces, r being what
\* the one self.llm.invoke of the call did
LabGenerationService_generate_lab(concept_name, concept_definition, topic, personalization_context, r) ==
    LET attempt == ServiceTry(concept_name, concept_definition, topic, personalization_context, r)
    IN  IF attempt.raised
        THEN ServiceExcept(concept_name, concept_definition, topic, attempt.error)
        ELSE attempt

---------------------------------------------------------------------------
(* utils/file_utils.py. *)

\* \w of the re module on str: letters, digits and the underscore
IsWordChar(c) == IsCased(c) \/ IsDigit(c) \/ c = "_"

\* re.sub(r'_+', '_', s)
CollapseUnderscores(s) ==
    LET positions == [k \in 1..Len(s) |-> k]
        first == SelectSeq(positions, LAMBDA k : ~(k > 1 /\ s[k] = "_" /\ s[k - 1] = "_"))
    IN  [j \in 1..Len(first) |-> s[first[j]]]

\* s.rstrip('_.')
RStrip(s) ==
    LET others == {k \in 1..Len(s) : s[k] \notin {"_", "."}}
        last == IF others = {} THEN 0 ELSE CHOOSE k \in others : \A j \in others : j <= k
    IN  SubSeq(s, 1, last)

\* s[:n]: the first n items for n >= 0, all but the last -n items for n < 0
SliceTo(s, n) ==
    LET stop == IF n >= 0 THEN n ELSE Len(s) + n
    IN  SubSeq(s, 1, IF stop < 0 THEN 0 ELSE IF stop < Len(s) THEN stop ELSE Len(s))

\* sanitize_filename stripping the trailing underscores and periods before
\* it truncates
sanitize_filename_strip_first(name, max_length) ==
    LET spaces == [k \in 1..Len(name) |-> IF name[k] = " " THEN "_" ELSE name[k]]
        kept == SelectSeq(spaces, LAMBDA c : IsWordChar(c) \/ c \in {"-", "_", "."})
        stripped == RStrip(CollapseUnderscores(kept))
    IN  IF Len(stripped) > max_length THEN SliceTo(stripped, max_length) ELSE stripped

sanitize_filename(name, max_length) ==
    LET spaces == [k \in 1..Len(name) |-> IF name[k] = " " THEN "_" ELSE name[k]]
        kept == SelectSeq(spaces, LAMBDA c : IsWordChar(c) \/ c \in {"-", "_", "."})
        collapsed == CollapseUnderscores(kept)
        trimmed == IF Len(collapsed) > max_length THEN SliceTo(collapsed, max_length)
                   ELSE collapsed
    IN  RStrip(trimmed)

\* the default of sanitize_filename's max_length
DefaultMaxLength == 100

\* lab_result.lab.model_dump(): the model's fields as a dictionary, nested
\* models as dictionaries, None kept
model_dump(m) == m

\* JSON documents, as json.dump writes them and json.load reads them
JNull == [j |-> "null"]
JString(s) == [j |-> "string", s |-> s]
JNumber(n) == [j |-> "number", n |-> n]
JBool(b) == [j |-> "bool", b |-> b]
JArray(items) == [j |-> "array", items |-> items]
JObject(members) == [j |-> "object", members |-> members]

\* what a file holds when json.dump or close raised after open(path, 'w')
\* created or truncated it: a beginning of the text, possibly empty, that is
\* no JSON document
JCut == [j |-> "cut"]

\* the characters of the value of a Literal field
EnumText(e) ==
    CASE e = "easy" -> <<"e", "a", "s", "y">>
      [] e = "medium" -> <<"m", "e", "d", "i", "u", "m">>
      [] e = "hard" -> <<"h", "a", "r", "d">>
      [] e = "low" -> <<"l", "o", "w">>
      [] e = "high" -> <<"h", "i", "g", "h">>
      [] e = "guided" -> <<"g", "u", "i", "d", "e", "d">>
      [] e = "challenge" -> <<"c", "h", "a", "l", "l", "e", "n", "g", "e">>
      [] e = "exploration" -> <<"e", "x", "p", "l", "o", "r", "a", "t", "i", "o", "n">>

\* the Literal value a JSON string stands for, "invalid" when it is none of
\* the values a Literal field of the models allows
TextEnum(s) ==
    LET all == ExerciseTypes \cup Difficulties \cup ScaffoldingLevels
    IN  IF \E e \in all : EnumText(e) = s
        THEN CHOOSE e \in all : EnumText(e) = s
        ELSE "invalid"

\* json.dump of a field of type Optional[str]: None is written as null
JsonOfStr(v) == IF IsNone(v) THEN JNull ELSE JString(v.s)

\* json.dump of a field of type Optional[List[str]]
JsonOfStrList(v) ==
    IF IsNone(v) THEN JNull
    ELSE JArray([k \in 1..Len(v.items) |-> JString(v.items[k].s)])

\* json.dump of a list of dict that replaces an empty list by null
JsonOfDictList_empty_as_null(v) ==
    IF IsNone(v) \/ v.items = <<>> THEN JNull
    ELSE JArray([k \in 1..Len(v.items) |-> JObject(v.items[k].d)])

\* json.dump of a field of type Optional[List[dict]]
JsonOfDictList(v) ==
    IF IsNone(v) THEN JNull
    ELSE JArray([k \in 1..Len(v.items) |-> JObject(v.items[k].d)])

\* json.dump of the dictionary of a LabExercise
JsonOfExercise(e) ==
    JObject([type |-> JString(EnumText(e.type)),
             hints |-> JNumber(e.hints),
             description |-> JsonOfStr(e.description),
             starter_code |-> JsonOfStr(e.starter_code),
             solution |-> JsonOfStr(e.solution),
             test_cases |-> JsonOfDictList(e.test_cases)])

\* json.dump of the dictionary of a LabSection
JsonOfSection(s) ==
    JObject([concept |-> JsonOfStr(s.concept),
             title |-> JsonOfStr(s.title),
             difficulty |-> JString(EnumText(s.difficulty)),
             scaffolding_level |-> JString(EnumText(s.scaffolding_level)),
             exercises |-> JArray([k \in 1..Len(s.exercises) |->
                                      JsonOfExercise(s.exercises[k])]),
             learning_objectives |-> JsonOfStrList(s.learning_objectives),
             background |-> JsonOfStr(s.background)])

\* json.dump(lab.model_dump(), f, indent=2, ensure_ascii=False)
JsonOfLab(lab) ==
    JObject([title |-> JsonOfStr(lab.title),
             topic |-> JsonOfStr(lab.topic),
             difficulty |-> JString(EnumText(lab.difficulty)),
             estimated_time |-> JNumber(lab.estimated_time),
             sections |-> JArray([k \in 1..Len(lab.sections) |->
                                     JsonOfSection(lab.sections[k])]),
             prerequisites |-> JsonOfStrList(lab.prerequisites),
             technologies |-> JsonOfStrList(lab.technologies),
             personalization_context |-> JsonOfStr(lab.personalization_context)])

\* json.dump of the dictionary of a LabGenerationMetadata
JsonOfMetadata(m) ==
    JObject([concept_name |-> JsonOfStr(m.concept_name),
             concept_definition |-> JsonOfStr(m.concept_definition),
             source_topic |-> JsonOfStr(m.source_topic),
             model_used |-> JsonOfStr(m.model_used),
             personalization_applied |-> JBool(m.personalization_applied)])

\* json.load of a value that is no array: the Python value of its JSON type
ValueOfJson(j) ==
    CASE j.j = "null" -> PyNone
      [] j.j = "string" -> PyStr(j.s)
      [] j.j = "number" -> PyInt(j.n)
      [] j.j = "bool" -> [t |-> "bool", b |-> j.b]
      [] j.j = "object" -> PyDict(j.members)

\* json.load of the member of a field of type Optional[str]
StrOfJson(j) == ValueOfJson(j)

\* json.load of the member of a field of type Optional[List[str]]: the items
\* come back with the types the file gives them
StrListOfJson(j) ==
    IF j.j = "array" THEN PyList([k \in 1..Len(j.items) |-> ValueOfJson(j.items[k])])
    ELSE ValueOfJson(j)

\* json.load of the member of a field of type Optional[List[dict]]
DictListOfJson(j) ==
    IF j.j = "array" THEN PyList([k \in 1..Len(j.items) |-> ValueOfJson(j.items[k])])
    ELSE ValueOfJson(j)

\* json.load of an exercise object: the dictionary LabExercise(**d) is given
ExerciseOfJson(j) ==
    [type |-> TextEnum(j.members.type.s),
     hints |-> j.members.hints.n,
     description |-> StrOfJson(j.members.description),
     starter_code |-> StrOfJson(j.members.starter_code),
     solution |-> StrOfJson(j.members.solution),
     test_cases |-> DictListOfJson(j.members.test_cases)]

\* json.load of a section object
SectionOfJson(j) ==
    [concept |-> StrOfJson(j.members.concept),
     title |-> StrOfJson(j.members.title),
     difficulty |-> TextEnum(j.members.difficulty.s),
     scaffolding_level |-> TextEnum(j.members.scaffolding_level.s),
     exercises |-> [k \in 1..Len(j.members.exercises.items) |->
                       ExerciseOfJson(j.members.exercises.items[k])],
     learning_objectives |-> StrListOfJson(j.members.learning_objectives),
     background |-> StrOfJson(j.members.background)]

\* json.load of lab_content.json: the dictionary of the lab's fields
LabOfJson(j) ==
    [title |-> StrOfJson(j.members.title),
     topic |-> StrOfJson(j.members.topic),
     difficulty |-> TextEnum(j.members.difficulty.s),
     estimated_time |-> j.members.estimated_time.n,
     sections |-> [k \in 1..Len(j.members.sections.items) |->
                      SectionOfJson(j.members.sections.items[k])],
     prerequisites |-> StrListOfJson(j.members.prerequisites),
     technologies |-> StrListOfJson(j.members.technologies),
     personalization_context |-> StrOfJson(j.members.personalization_context)]

\* lab_content.json read back and handed to PersonalizedLab(**lab_data)
ReadLab(j) ==
    LET lab_data == LabOfJson(j)
    IN  IF ValidPersonalizedLab(lab_data)
        THEN Return(PersonalizedLab(lab_data))
        ELSE Raise(ValidationErrorMsg(TXT_PersonalizedLab, PersonalizedLabErrors(lab_data)))

\* Path(a) / b relative to output_dir: a path is the sequence of its
\* components, and joining the empty string adds none
JoinPath(dir, component) == IF component = <<>> THEN dir ELSE Append(dir, component)

\* open(path, 'w') and json.dump: the file is created or overwritten
WriteFile(fs, path, content) == (path :> content) @@ fs

\* create_output_directory(base_dir, concept_name): the directory's path
create_output_directory(concept_name) ==
    JoinPath(<<>>, sanitize_filename(concept_name, DefaultMaxLength))

\* organize_lab_output(lab_result, output_dir, concept_name) on the file
\* system fs; io tells which file operation, if any, raises OSError:
\* "fail_full" mkdir or the open of the full file, "cut_full" json.dump or
\* close of the full file, "fail_simplified" the open of lab_content.json,
\* "cut_simplified" json.dump or close of lab_content.json, "ok" none.
\* Gives the file system left behind and what the call produced.
organize_lab_output(fs, lab_result, concept_name, io) ==
    LET concept_dir == create_output_directory(concept_name.s)
        lab_data ==
            IF Truthy(lab_result.error)
            THEN JObject([lab |-> JsonOfLab(model_dump(lab_result.lab)),
                          metadata |-> JsonOfMetadata(model_dump(lab_result.metadata)),
                          success |-> JBool(lab_result.success),
                          error |-> JsonOfStr(lab_result.error)])
            ELSE JObject([lab |-> JsonOfLab(model_dump(lab_result.lab)),
                          metadata |-> JsonOfMetadata(model_dump(lab_result.metadata)),
                          success |-> JBool(lab_result.success)])
        lab_file ==
            Append(concept_dir, sanitize_filename(concept_name.s, DefaultMaxLength) \o TXT_LabJson)
        simplified_file == Append(concept_dir, TXT_LabContentJson)
        fs1 == WriteFile(fs, lab_file, lab_data)
        fs2 == WriteFile(fs1, simplified_file, JsonOfLab(model_dump(lab_result.lab)))
    IN  IF ~IsStr(concept_name)
        THEN [files |-> fs, out |-> Raise(AttributeErrorMsg(concept_name, TXT_replace))]
        ELSE IF io = "fail_full" THEN [files |-> fs, out |-> Raise(TXT_PermissionDenied)]
        ELSE IF io = "cut_full"
        THEN [files |-> WriteFile(fs, lab_file, JCut), out |-> Raise(TXT_PermissionDenied)]
        ELSE IF io = "fail_simplified" THEN [files |-> fs1, out |-> Raise(TXT_PermissionDenied)]
        ELSE IF io = "cut_simplified"
        THEN [files |-> WriteFile(fs1, simplified_file, JCut),
              out |-> Raise(TXT_PermissionDenied)]
        ELSE [files |-> fs2,
              out |-> Return([concept_dir |-> concept_dir,
                              full_lab_file |-> lab_file,
                              simplified_file |-> simplified_file])]

\* one entry of the summary's 'labs' list
LabInfo(result) ==
    IF Truthy(result.error)
    THEN [concept |-> result.metadata.concept_name,
          topic |-> result.metadata.source_topic,
          title |-> result.lab.title,
          difficulty |-> result.lab.difficulty,
          estimated_time |-> result.lab.estimated_time,
          num_sections |-> Len(result.lab.sections),
          success |-> result.success,
          error |-> result.error]
    ELSE [concept |-> result.metadata.concept_name,
          topic |-> result.metadata.source_topic,
          title |-> result.lab.title,
          difficulty |-> result.lab.difficulty,
          estimated_time |-> result.lab.estimated_time,
          num_sections |-> Len(result.lab.sections),
          success |-> result.success]

\* create_summary_report(results, output_dir): the summary dictionary
create_summary_report(rs) ==
    [total_labs |-> Len(rs),
     successful |-> Cardinality({k \in 1..Len(rs) : rs[k].success}),
     failed |-> Cardinality({k \in 1..Len(rs) : ~rs[k].success}),
     labs |-> [k \in 1..Len(rs) |-> LabInfo(rs[k])]]

\* the path of generation_summary.json under output_dir
summary_path == <<TXT_GenerationSummaryJson>>

\* the concept dictionaries of one entry of 'theories'
ConceptsOfTheory(theory) ==
    LET topic == Get(theory, "topic", PyStr(TXT_Unknown))
        cs == Get(theory, "concepts", <<>>)
    IN  [k \in 1..Len(cs) |->
            [name |-> Get(cs[k], "name", PyStr(<<>>)),
             definition |-> Get(cs[k], "definition", PyStr(<<>>)),
             topic |-> topic,
             text_evidence |-> Get(cs[k], "text_evidence", PyStr(<<>>))]]

\* the loop over data.get('theories', []) from its k-th entry on
RECURSIVE TheoriesLoop(_, _)
TheoriesLoop(theories, k) ==
    IF k > Len(theories) THEN <<>>
    ELSE ConceptsOfTheory(theories[k]) \o TheoriesLoop(theories, k + 1)

\* load_concepts_from_export, data being the parsed JSON document
load_concepts_from_export(data) == TheoriesLoop(Get(data, "theories", <<>>), 1)

---------------------------------------------------------------------------
(* The inputs the model draws from. *)

\* n characters, none of them part of a keyword
Pad(n) == [k \in 1..n |-> "x"]

\* lengths of keyword-free definitions: short ones and those around the
\* thresholds of the length fallback
PadLengths ==
    (0..MaxShort) \cup ((100 - Near)..(100 + Near)) \cup ((200 - Near)..(200 + Near))

ProbeNames == {<<>>, TXT_SystemDesign, TXT_NoSqlDatabase, TXT_BigDATA, TXT_Sharding}

ProbeDefinitions ==
    {Pad(n) : n \in PadLengths}
    \cup {TXT_aDatabaseTechnique, TXT_keepsThingsInStorage, TXT_Consistency}
    \cup {w \o Pad(200) : w \in {KW_storage, KW_model, KW_technique}}

\* entries of the 'theories' array of an export: with and without 'topic',
\* concepts with and without 'name', 'definition' and 'text_evidence', and a
\* concept whose name is the JSON null
Theories ==
    { [topic |-> PyStr(TXT_Intro),
       concepts |-> << [name |-> PyStr(TXT_SystemDesign),
                        definition |-> PyStr(TXT_aDatabaseTechnique),
                        text_evidence |-> PyStr(TXT_evidence)] >>],
      [concepts |-> << [name |-> PyStr(TXT_CapTheorem),
                        definition |-> PyStr(TXT_Consistency)],
                       [definition |-> PyStr(TXT_keepsThingsInStorage)] >>],
      [topic |-> PyStr(TXT_Graphs),
       concepts |-> << [name |-> PyNone, definition |-> PyStr(TXT_Sharding)] >>] }

RECURSIVE SeqsUpTo(_, _)
SeqsUpTo(S, n) ==
    IF n = 0 THEN {<<>>}
    ELSE LET shorter == SeqsUpTo(S, n - 1)
         IN  shorter \cup {Append(s, x) : s \in shorter, x \in S}

\* characters of the names handed to sanitize_filename: a letter, a space,
\* the three characters that are kept besides \w, and one that is removed
NameChars == {"a", " ", "_", ".", "-", "!"}

\* names for sanitize_filename: every string over NameChars of at most
\* MaxNameLen characters, a concept name with upper case and punctuation, and
\* names of 101 characters whose cut at 100 ends in an underscore or a period
FileNames ==
    SeqsUpTo(NameChars, MaxNameLen)
    \cup {TXT_CapTheorem, Pad(99) \o <<"_", "a">>, Pad(98) \o <<".", " ", "a">>}

\* the max_length argument: a negative one, the lengths that cut the
\* enumerated names, and the default
MaxLengths == ((-1)..MaxNameLen) \cup {DefaultMaxLength}

\* os.getenv("OPENAI_API_KEY"): unset, set to the empty string, set
ApiKeys == {PyNone, PyStr(<<>>), PyStr(TXT_ApiKey)}

\* how the prompted generator is entered: main() of ingestion.py in single
\* mode or in batch mode, or a caller that builds a LabGenerationService
EntryPoints == {"single", "batch", "service"}

\* the --concept argument of main(): absent, a name of the export in another
\* case, a name no export has
ConceptArgs == {PyNone, PyStr(lower(TXT_SystemDesign)), PyStr(TXT_MapReduce)}

\* the exports of at most MaxConcepts concepts
Exports ==
    {e \in {[theories |-> ts] : ts \in SeqsUpTo(Theories, MaxConcepts)} :
        Len(load_concepts_from_export(e)) <= MaxConcepts}

\* entries of 'theories' whose concept names differ from one another and
\* meet after sanitize_filename: two that differ in removed characters only,
\* and a name of removed characters next to a missing name
LookalikeTheories ==
    { [topic |-> PyStr(TXT_Intro),
       concepts |-> << [name |-> PyStr(TXT_CapTheorem),
                        definition |-> PyStr(TXT_Consistency)] >>],
      [topic |-> PyStr(TXT_Intro),
       concepts |-> << [name |-> PyStr(TXT_CapTheoremPlain),
                        definition |-> PyStr(TXT_Consistency)] >>],
      [topic |-> PyStr(TXT_Graphs),
       concepts |-> << [name |-> PyStr(TXT_Bangs),
                        definition |-> PyStr(TXT_Sharding)] >>],
      [topic |-> PyStr(TXT_Graphs),
       concepts |-> << [definition |-> PyStr(TXT_Sharding)] >>] }

\* the exports of at most MaxConcepts such concepts
LookalikeExports ==
    {e \in {[theories |-> ts] : ts \in SeqsUpTo(LookalikeTheories, MaxConcepts)} :
        Len(load_concepts_from_export(e)) <= MaxConcepts}

\* personalization contexts: absent, empty, a theme, and a value that is no str
Contexts == {PyNone, PyStr(<<>>), PyStr(TXT_gaming), PyInt(7)}

\* the limit argument of the ingestion driver
Limits == {PyNone} \cup {PyInt(n) : n \in 0..MaxLimit}

\* a lab dictionary of the shape the prompt asks for, optional fields left out
GoodLabData ==
    [title |-> PyStr(TXT_LabTitle),
     topic |-> PyStr(TXT_Intro),
     difficulty |-> "hard",
     estimated_time |-> 180,
     sections |-> <<
        [concept |-> PyStr(TXT_Sharding),
         title |-> PyStr(TXT_LabTitle),
         difficulty |-> "easy",
         scaffolding_level |-> "high",
         exercises |-> << [type |-> "exploration", hints |-> 0],
                          [type |-> "challenge", hints |-> 5,
                           description |-> PyStr(TXT_LabTitle)] >>] >>,
     personalization_context |-> PyStr(TXT_gaming)]

\* d without its field f
Without(d, f) == [k \in DOMAIN d \ {f} |-> d[k]]

\* d with the field f set to v
With(d, f, v) == [k \in DOMAIN d \cup {f} |-> IF k = f THEN v ELSE d[k]]

\* dictionaries the parser can hand back: a valid one, one with a required
\* field missing, with an enum value and a number out of range, with an
\* empty list where one element is required, with a number out of range in an
\* exercise, with a list of strings one of whose items is a number
ReplyData ==
    { GoodLabData,
      Without(GoodLabData, "title"),
      [GoodLabData EXCEPT !.difficulty = "expert", !.estimated_time = 181],
      [GoodLabData EXCEPT !.sections[1].exercises = <<>>],
      [GoodLabData EXCEPT !.sections[1].exercises[1].hints = 6],
      With(GoodLabData, "prerequisites", PyList(<<PyStr(TXT_Python), PyInt(7)>>)) }

\* what self.llm.invoke(prompt) can do: raise (an exception whose str() is
\* empty, or one with a message), or return content that the JSON parser
\* rejects or parses to a dictionary
LlmReplies ==
    { [kind |-> "raise", msg |-> <<>>],
      [kind |-> "raise", msg |-> TXT_RequestTimedOut],
      [kind |-> "content", json |-> FALSE] }
    \cup {[kind |-> "content", json |-> TRUE, data |-> d] : d \in ReplyData}

IoOutcomes == {"ok", "fail_full", "cut_full", "fail_simplified", "cut_simplified"}

\* the write of generation_summary.json: done, OSError at open(), or OSError
\* at json.dump or close after open() created or truncated the file
SummaryIoOutcomes == {"ok", "fail", "cut"}

---------------------------------------------------------------------------
(* The program: its entry points and the steps of the batch drivers. *)

NoCall == [fn |-> "none"]
NoReply == [kind |-> "none"]
NoOutcome == [none |-> TRUE]

Init ==
    /\ pc = "idle"
    /\ call = NoCall
    /\ ret = PyNone
    /\ driver = "none"
    /\ concepts = <<>>
    /\ ctx = PyNone
    /\ i = 0
    /\ phase = "START"
    /\ reply = NoReply
    /\ llm_calls = 0
    /\ outcome = NoOutcome
    /\ saved = NoOutcome
    /\ results = <<>>
    /\ successful = 0
    /\ failed = 0
    /\ files = <<>>
    /\ summary = PyNone
    /\ log = <<>>

batch_vars == <<driver, concepts, ctx, i, phase, reply, llm_calls, outcome, saved,
                results, successful, failed, files, summary, log>>

\* a direct call of TemplateLabGenerator._determine_difficulty
CallDetermineDifficulty ==
    /\ pc = "idle"
    /\ \E n \in ProbeNames, d \in ProbeDefinitions :
        /\ call' = [fn |-> "_determine_difficulty", concept_name |-> n, definition |-> d]
        /\ ret' = _determine_difficulty(n, d)
    /\ pc' = "returned"
    /\ UNCHANGED batch_vars

\* a direct call of TemplateLabGenerator._estimate_time
CallEstimateTime ==
    /\ pc = "idle"
    /\ \E d \in Difficulties \cup {"expert"}, n \in 1..MaxSections :
        /\ call' = [fn |-> "_estimate_time", difficulty |-> d, num_sections |-> n]
        /\ ret' = _estimate_time(d, n)
    /\ pc' = "returned"
    /\ UNCHANGED batch_vars

\* a direct call of TemplateLabGenerator._create_exercises: the list of the
\* LabExercise objects it builds
CallCreateExercises ==
    /\ pc = "idle"
    /\ \E n \in ProbeNames, d \in Difficulties, c \in Contexts :
        /\ call' = [fn |-> "_create_exercises", concept_name |-> PyStr(n),
                    difficulty |-> d, personalization_context |-> c]
        /\ ret' = LET es == _create_exercises(PyStr(n), d, c)
                  IN  [k \in 1..Len(es) |-> LabExercise(es[k])]
    /\ pc' = "returned"
    /\ UNCHANGED batch_vars

\* sanitize_filename applied to a name and then to its own result
CallSanitizeFilename ==
    /\ pc = "idle"
    /\ \E x \in FileNames, m \in MaxLengths :
        /\ call' = [fn |-> "sanitize_filename", name |-> x, max_length |-> m]
        /\ ret' = [once |-> sanitize_filename(x, m),
                   twice |-> sanitize_filename(sanitize_filename(x, m), m)]
    /\ pc' = "returned"
    /\ UNCHANGED batch_vars

\* generate_all_labs up to its loop: the concepts are loaded, the output
\* directory is made, the counters and the results list are initialised; an
\* OSError of the mkdir ends the run before the loop
StartGenerateAllLabs ==
    /\ pc = "idle"
    /\ \E export \in Exports, c \in Contexts :
        /\ call' = [fn |-> "generate_all_labs", export |-> export, limit |-> PyNone]
        /\ concepts' = load_concepts_from_export(export)
        /\ ctx' = c
    /\ driver' = "generate_all_labs"
    /\ \E mkdir_ok \in BOOLEAN :
          IF mkdir_ok
          THEN /\ results' = <<>> /\ successful' = 0 /\ failed' = 0
               /\ pc' = "loop"
               /\ UNCHANGED ret
          ELSE /\ ret' = Raise(TXT_PermissionDenied)
               /\ pc' = "raised"
               /\ UNCHANGED <<results, successful, failed>>
    /\ UNCHANGED <<log, i, phase, reply, llm_calls, outcome, saved, files, summary>>

\* generate_all_labs up to its loop, on an export of LookalikeExports
StartLookalikeBatch ==
    /\ pc = "idle"
    /\ \E export \in LookalikeExports, c \in Contexts :
        /\ call' = [fn |-> "generate_all_labs", export |-> export, limit |-> PyNone]
        /\ concepts' = load_concepts_from_export(export)
        /\ ctx' = c
    /\ driver' = "generate_all_labs"
    /\ \E mkdir_ok \in BOOLEAN :
          IF mkdir_ok
          THEN /\ results' = <<>> /\ successful' = 0 /\ failed' = 0
               /\ pc' = "loop"
               /\ UNCHANGED ret
          ELSE /\ ret' = Raise(TXT_PermissionDenied)
               /\ pc' = "raised"
               /\ UNCHANGED <<results, successful, failed>>
    /\ UNCHANGED <<log, i, phase, reply, llm_calls, outcome, saved, files, summary>>

\* main() up to the construction of LabIngestionService, whose __init__
\* builds the LabGenerationService (or a caller building the service): the
\* exception of a missing credential leaves the entry point
Construct ==
    /\ pc = "idle"
    /\ \E entry \in EntryPoints, key \in ApiKeys :
        LET service == LabGenerationService_init(key)
        IN  /\ call' = [fn |-> "main", entry |-> entry, api_key |-> key]
            /\ IF service.raised
               THEN pc' = "raised" /\ ret' = service
               ELSE pc' = "constructed" /\ UNCHANGED ret
    /\ UNCHANGED batch_vars

\* next((c for c in concepts if c['name'].lower() == wanted.lower()), None)
\* from the k-th concept on
RECURSIVE FindConcept(_, _, _)
FindConcept(cs, wanted, k) ==
    IF k > Len(cs) THEN [kind |-> "none"]
    ELSE IF ~IsStr(cs[k].name)
         THEN [kind |-> "raise", msg |-> AttributeErrorMsg(cs[k].name, TXT_lower)]
    ELSE IF lower(cs[k].name.s) = lower(wanted.s) THEN [kind |-> "found", concept |-> cs[k]]
    ELSE FindConcept(cs, wanted, k + 1)

\* main() in single mode after the construction: --concept is required, the
\* export is loaded, the concept is looked up and, when found, handed to
\* generate_single_lab
StartSingle ==
    /\ pc = "constructed"
    /\ call.entry = "single"
    /\ \E export \in Exports, c \in Contexts, wanted \in ConceptArgs :
        LET found == IF Truthy(wanted)
                     THEN FindConcept(load_concepts_from_export(export), wanted, 1)
                     ELSE [kind |-> "none"]
        IN  /\ call' = [fn |-> "single", export |-> export, limit |-> PyNone,
                        concept |-> wanted, api_key |-> call.api_key]
            /\ ctx' = c
            /\ concepts' = IF found.kind = "found" THEN <<found.concept>> ELSE <<>>
            /\ pc' = CASE found.kind = "found" -> "loop"
                       [] found.kind = "raise" -> "raised"
                       [] OTHER -> "done"
            /\ ret' = IF found.kind = "raise" THEN Raise(found.msg) ELSE ret
    /\ driver' = "single"
    /\ UNCHANGED <<log, i, phase, reply, llm_calls, outcome, saved, results, successful,
                   failed, files, summary>>

\* LabIngestionService.generate_batch_labs up to its loop: the concepts are
\* loaded and cut to the limit when the limit is truthy, and the output
\* directory is made; an OSError of the mkdir ends the run before the loop
StartIngestion ==
    /\ pc = "constructed"
    /\ call.entry = "batch"
    /\ \E export \in Exports, c \in Contexts, limit \in Limits :
        /\ call' = [fn |-> "ingestion", export |-> export, limit |-> limit,
                    api_key |-> call.api_key]
        /\ concepts' = IF Truthy(limit)
                       THEN SliceTo(load_concepts_from_export(export), limit.n)
                       ELSE load_concepts_from_export(export)
        /\ ctx' = c
    /\ driver' = "ingestion"
    /\ \E mkdir_ok \in BOOLEAN :
          IF mkdir_ok
          THEN /\ results' = <<>> /\ successful' = 0 /\ failed' = 0
               /\ pc' = "loop"
               /\ UNCHANGED ret
          ELSE /\ ret' = Raise(TXT_PermissionDenied)
               /\ pc' = "raised"
               /\ UNCHANGED <<results, successful, failed>>
    /\ UNCHANGED <<log, i, phase, reply, llm_calls, outcome, saved, files, summary>>

\* LabGenerationService.generate_batch_labs(concepts, personalization_context)
\* up to its loop, on the concepts a caller loaded from an export
StartServiceBatch ==
    /\ pc = "constructed"
    /\ call.entry = "service"
    /\ \E export \in Exports, c \in Contexts :
        /\ call' = [fn |-> "service_batch", export |-> export, limit |-> PyNone,
                    api_key |-> call.api_key]
        /\ concepts' = load_concepts_from_export(export)
        /\ ctx' = c
    /\ driver' = "service_batch"
    /\ results' = <<>>
    /\ pc' = "loop"
    /\ UNCHANGED <<log, ret, i, phase, reply, llm_calls, outcome, saved, successful, failed,
                   files, summary>>

\* the for loop takes the next concept and calls generate_lab, which enters
\* its try block
BeginConcept ==
    /\ pc = "loop"
    /\ i < Len(concepts)
    /\ i' = i + 1
    /\ phase' = "BUILDING"
    /\ llm_calls' = 0
    /\ pc' = "generate"
    /\ UNCHANGED <<log, call, ret, driver, concepts, ctx, reply, outcome, saved, results,
                   successful, failed, files, summary>>

\* the state generate_lab ends in
PhaseOf(o) ==
    IF o.raised THEN "RAISED"
    ELSE IF o.value.success THEN "SUCCEEDED"
    ELSE "FAILED_FALLBACK"

\* TemplateLabGenerator.generate_lab runs for the current concept
TemplateGenerate ==
    /\ pc = "generate"
    /\ driver = "generate_all_labs"
    /\ LET c == concepts[i]
           o == TemplateLabGenerator_generate_lab(c.name, c.definition, c.topic, ctx)
       IN  /\ outcome' = o
           /\ phase' = PhaseOf(o)
    /\ pc' = "generated"
    /\ UNCHANGED <<log, call, ret, driver, concepts, ctx, i, reply, llm_calls, saved, results,
                   successful, failed, files, summary>>

\* LabGenerationService.generate_lab calls self.llm.invoke(prompt)
LlmInvoke ==
    /\ pc = "generate"
    /\ driver \in {"single", "ingestion", "service_batch"}
    /\ \E r \in LlmReplies : reply' = r
    /\ llm_calls' = llm_calls + 1
    /\ pc' = "replied"
    /\ UNCHANGED <<log, call, ret, driver, concepts, ctx, i, phase, outcome, saved, results,
                   successful, failed, files, summary>>

\* LabGenerationService.generate_lab after the invoke: parse, validate,
\* wrap, or the except block
ServiceFinish ==
    /\ pc = "replied"
    /\ LET c == concepts[i]
           o == LabGenerationService_generate_lab(c.name, c.definition, c.topic, ctx, reply)
       IN  /\ outcome' = o
           /\ phase' = PhaseOf(o)
    /\ pc' = "generated"
    /\ UNCHANGED <<log, call, ret, driver, concepts, ctx, i, reply, llm_calls, saved, results,
                   successful, failed, files, summary>>

\* organize_lab_output writes the artifacts of the result generate_lab returned
Persist ==
    /\ pc = "generated"
    /\ driver \in {"generate_all_labs", "single", "ingestion"}
    /\ ~outcome.raised
    /\ \E io \in IoOutcomes :
        LET o == organize_lab_output(files, outcome.value, concepts[i].name, io)
        IN  /\ files' = o.files
            /\ saved' = o.out
    /\ pc' = "persisted"
    /\ UNCHANGED <<log, call, ret, driver, concepts, ctx, i, phase, reply, llm_calls, outcome,
                   results, successful, failed, summary>>

\* the loop body with an except branch that only prints
RecordGenerateAllLabs_uncounted_exception ==
    /\ driver = "generate_all_labs"
    /\ pc = "persisted" \/ (pc = "generated" /\ outcome.raised)
    /\ IF outcome.raised \/ saved.raised
       THEN UNCHANGED <<results, successful, failed>>
       ELSE /\ results' = Append(results, outcome.value)
            /\ IF outcome.value.success
               THEN successful' = successful + 1 /\ UNCHANGED failed
               ELSE failed' = failed + 1 /\ UNCHANGED successful
    /\ log' = Append(log, [outcome |-> outcome, saved |-> saved])
    /\ pc' = "loop"
    /\ phase' = "START"
    /\ reply' = NoReply /\ outcome' = NoOutcome /\ saved' = NoOutcome
    /\ UNCHANGED <<call, ret, driver, concepts, ctx, i, llm_calls, files, summary>>

\* the rest of the loop body of generate_all_labs: the result is appended and
\* counted, or the except branch counts a failure
RecordGenerateAllLabs ==
    /\ driver = "generate_all_labs"
    /\ pc = "persisted" \/ (pc = "generated" /\ outcome.raised)
    /\ IF outcome.raised \/ saved.raised
       THEN /\ failed' = failed + 1
            /\ UNCHANGED <<results, successful>>
       ELSE /\ results' = Append(results, outcome.value)
            /\ IF outcome.value.success
               THEN successful' = successful + 1 /\ UNCHANGED failed
               ELSE failed' = failed + 1 /\ UNCHANGED successful
    /\ log' = Append(log, [outcome |-> outcome, saved |-> saved])
    /\ pc' = "loop"
    /\ phase' = "START"
    /\ reply' = NoReply /\ outcome' = NoOutcome /\ saved' = NoOutcome
    /\ UNCHANGED <<call, ret, driver, concepts, ctx, i, llm_calls, files, summary>>

\* the dictionary generate_single_lab returns: with 'result' when generate_lab
\* and organize_lab_output returned, without it from its except branch
generate_single_lab(c, o, s) ==
    IF o.raised
    THEN [success |-> FALSE, concept_name |-> c.name, topic |-> c.topic, error |-> o.error]
    ELSE IF s.raised
    THEN [success |-> FALSE, concept_name |-> c.name, topic |-> c.topic, error |-> s.error]
    ELSE [success |-> o.value.success, concept_name |-> c.name, topic |-> c.topic,
          saved_files |-> s.value, result |-> o.value]

\* the rest of the loop body of LabIngestionService.generate_batch_labs:
\* result['result'] is appended and counted, or raises KeyError and the
\* except branch counts a failure
RecordIngestion ==
    /\ driver = "ingestion"
    /\ pc = "persisted" \/ (pc = "generated" /\ outcome.raised)
    /\ LET result == generate_single_lab(concepts[i], outcome, saved)
       IN  IF Has(result, "result")
           THEN /\ results' = Append(results, result.result)
                /\ IF result.success
                   THEN successful' = successful + 1 /\ UNCHANGED failed
                   ELSE failed' = failed + 1 /\ UNCHANGED successful
           ELSE /\ failed' = failed + 1
                /\ UNCHANGED <<results, successful>>
    /\ log' = Append(log, [outcome |-> outcome, saved |-> saved])
    /\ pc' = "loop"
    /\ phase' = "START"
    /\ reply' = NoReply /\ outcome' = NoOutcome /\ saved' = NoOutcome
    /\ UNCHANGED <<call, ret, driver, concepts, ctx, i, llm_calls, files, summary>>

\* main() in single mode after generate_single_lab: the dictionary it
\* returns, with or without 'result', is dropped and main() returns
RecordSingle ==
    /\ driver = "single"
    /\ pc = "persisted" \/ (pc = "generated" /\ outcome.raised)
    /\ log' = Append(log, [outcome |-> outcome, saved |-> saved])
    /\ ret' = generate_single_lab(concepts[i], outcome, saved)
    /\ pc' = "done"
    /\ phase' = "START"
    /\ reply' = NoReply /\ outcome' = NoOutcome /\ saved' = NoOutcome
    /\ UNCHANGED <<call, driver, concepts, ctx, i, llm_calls, results, successful, failed,
                   files, summary>>

\* the rest of the loop body of LabGenerationService.generate_batch_labs
RecordServiceBatch ==
    /\ driver = "service_batch"
    /\ pc = "generated"
    /\ ~outcome.raised
    /\ results' = Append(results, outcome.value)
    /\ log' = Append(log, [outcome |-> outcome, saved |-> saved])
    /\ pc' = "loop"
    /\ phase' = "START"
    /\ reply' = NoReply /\ outcome' = NoOutcome
    /\ UNCHANGED <<call, ret, driver, concepts, ctx, i, llm_calls, saved, successful,
                   failed, files, summary>>

\* an exception of generate_lab leaves LabGenerationService.generate_batch_labs,
\* which has no handler
RaiseServiceBatch ==
    /\ driver = "service_batch"
    /\ pc = "generated"
    /\ outcome.raised
    /\ pc' = "raised"
    /\ UNCHANGED <<log, call, ret, driver, concepts, ctx, i, phase, reply, llm_calls, outcome,
                   saved, results, successful, failed, files, summary>>

\* after the loop: create_summary_report writes the summary and the driver
\* returns its dictionary; when open() or json.dump of the summary raises
\* OSError nothing handles it, the file is missing or cut and the driver raises
FinishBatch ==
    /\ pc = "loop"
    /\ i = Len(concepts)
    /\ driver \in {"generate_all_labs", "ingestion"}
    /\ \E io \in SummaryIoOutcomes :
        IF io = "ok"
        THEN /\ summary' = create_summary_report(results)
             /\ files' = WriteFile(files, summary_path, create_summary_report(results))
             /\ ret' = [total_concepts |-> Len(concepts),
                        successful |-> successful,
                        failed |-> failed,
                        summary_path |-> summary_path,
                        results |-> results]
             /\ pc' = "done"
        ELSE /\ ret' = Raise(TXT_PermissionDenied)
             /\ pc' = "raised"
             /\ files' = IF io = "cut" THEN WriteFile(files, summary_path, JCut) ELSE files
             /\ UNCHANGED summary
    /\ UNCHANGED <<log, call, driver, concepts, ctx, i, phase, reply, llm_calls, outcome, saved,
                   results, successful, failed>>

\* after the loop: LabGenerationService.generate_batch_labs returns its list
FinishServiceBatch ==
    /\ pc = "loop"
    /\ i = Len(concepts)
    /\ driver = "service_batch"
    /\ ret' = results
    /\ pc' = "done"
    /\ UNCHANGED <<log, call, driver, concepts, ctx, i, phase, reply, llm_calls, outcome, saved,
                   results, successful, failed, files, summary>>

Next ==
    \/ CallDetermineDifficulty
    \/ CallEstimateTime
    \/ CallCreateExercises
    \/ CallSanitizeFilename
    \/ StartGenerateAllLabs
    \/ Construct
    \/ StartSingle
    \/ StartIngestion
    \/ StartServiceBatch
    \/ BeginConcept
    \/ TemplateGenerate
    \/ LlmInvoke
    \/ ServiceFinish
    \/ Persist
    \/ RecordGenerateAllLabs
    \/ RecordIngestion
    \/ RecordSingle
    \/ RecordServiceBatch
    \/ RaiseServiceBatch
    \/ FinishBatch
    \/ FinishServiceBatch

Spec == Init /\ [][Next]_vars

\* generate_all_labs run on exports whose concept names meet after sanitizing
NextLookalike ==
    \/ StartLookalikeBatch
    \/ BeginConcept
    \/ TemplateGenerate
    \/ Persist
    \/ RecordGenerateAllLabs
    \/ FinishBatch

SpecLookalike == Init /\ [][NextLookalike]_vars

\* the template generator alone: a direct call of one of its functions or of
\* sanitize_filename, or generate_all_labs run over an export
NextTemplate ==
    \/ CallDetermineDifficulty
    \/ CallEstimateTime
    \/ CallCreateExercises
    \/ CallSanitizeFilename
    \/ StartGenerateAllLabs
    \/ BeginConcept
    \/ TemplateGenerate
    \/ Persist
    \/ RecordGenerateAllLabs
    \/ FinishBatch

SpecTemplate == Init /\ [][NextTemplate]_vars

---------------------------------------------------------------------------
(* Properties. *)

\* the template generator's generate_lab has finished for the current concept
TemplateDone == driver = "generate_all_labs" /\ pc = "generated"

\* the prompted generator's generate_lab has finished for the current concept
ServiceDone == driver \in {"ingestion", "service_batch"} /\ pc = "generated"

\* the concept's name, definition and topic are all strings
StrConcept(c) == IsStr(c.name) /\ IsStr(c.definition) /\ IsStr(c.topic)

\* a direct call of _determine_difficulty has returned
ClassifierReturned == pc = "returned" /\ call.fn = "_determine_difficulty"

\* keyword k of the table occurs, case-insensitively, in the name or in the
\* definition of the call
Occurs(k) ==
    \/ Contains(lower(call.concept_name), difficulty_map[k].keyword)
    \/ Contains(lower(call.definition), difficulty_map[k].keyword)

Hits == {k \in 1..Len(difficulty_map) : Occurs(k)}

\* C1: for a concept whose name, definition and topic are strings, whatever
\* the personalization context, the template generator's generate_lab
\* returns one result, on the success path and on the fallback path, whose
\* lab has at least one section, every section with at least one exercise.
C1_StructuralCompleteness ==
    (TemplateDone /\ StrConcept(concepts[i])) =>
        /\ ~outcome.raised
        /\ Len(outcome.value.lab.sections) >= 1
        /\ \A k \in 1..Len(outcome.value.lab.sections) :
              Len(outcome.value.lab.sections[k].exercises) >= 1

\* a successful template lab with one section of two exercises
C1_Witness ==
    /\ TemplateDone /\ StrConcept(concepts[i])
    /\ ~outcome.raised
    /\ outcome.value.success
    /\ Len(outcome.value.lab.sections) = 1
    /\ Len(outcome.value.lab.sections[1].exercises) = 2

\* C7: when at least one keyword of the table occurs, case-insensitively, in
\* the name or in the definition, _determine_difficulty returns the
\* difficulty of the earliest such keyword in table order, whatever the
\* length of the definition.
C7_FirstMatchWins ==
    (ClassifierReturned /\ Hits # {}) =>
        \E k \in Hits :
            /\ \A j \in Hits : k <= j
            /\ ret = difficulty_map[k].difficulty

\* a keyword in upper case with difficulty easy decides a definition of more
\* than 200 characters, and a later keyword of another difficulty occurs too
C7_Witness ==
    /\ ClassifierReturned
    /\ Cardinality({difficulty_map[k].difficulty : k \in Hits}) >= 2
    /\ Len(call.definition) > 200
    /\ ret = "easy"

\* C8 as stated: for "System Design" / "a database technique" the classifier
\* returns hard.
C8_SystemDesignIsHard ==
    (/\ ClassifierReturned
     /\ call.concept_name = TXT_SystemDesign
     /\ call.definition = TXT_aDatabaseTechnique) => ret = "hard"

\* C8 amended: for "System Design" / "a database technique" the first table
\* hit is "database", the first keyword of the table, and the classifier
\* returns medium although "system" (hard) and "technique" occur as well.
C8_SystemDesignIsMedium ==
    (/\ ClassifierReturned
     /\ call.concept_name = TXT_SystemDesign
     /\ call.definition = TXT_aDatabaseTechnique) =>
        /\ difficulty_map[1].keyword = KW_database
        /\ {1, 3, 10} \subseteq Hits
        /\ difficulty_map[3].keyword = KW_system
        /\ ret = "medium"

C8_Witness ==
    /\ ClassifierReturned
    /\ call.concept_name = TXT_SystemDesign
    /\ call.definition = TXT_aDatabaseTechnique
    /\ ret = "medium"

\* C9: when no keyword occurs, _determine_difficulty returns hard for a
\* definition of more than 200 characters, medium for more than 100 and at
\* most 200, easy otherwise: 201 gives hard, 101 medium, 100 easy.
C9_LengthFallback ==
    (ClassifierReturned /\ Hits = {}) =>
        /\ Len(call.definition) > 200 => ret = "hard"
        /\ (Len(call.definition) > 100 /\ Len(call.definition) <= 200) => ret = "medium"
        /\ Len(call.definition) <= 100 => ret = "easy"
        /\ Len(call.definition) = 201 => ret = "hard"
        /\ Len(call.definition) = 101 => ret = "medium"
        /\ Len(call.definition) = 100 => ret = "easy"

\* a keyword-free definition of exactly 100 characters is easy
C9_Witness ==
    /\ ClassifierReturned
    /\ Hits = {}
    /\ Len(call.definition) = 100
    /\ ret = "easy"

\* base minutes by difficulty, 45 for an unrecognized one
C10_Base(d) == IF d = "easy" THEN 30 ELSE IF d = "hard" THEN 60 ELSE 45

\* C10: _estimate_time(d, n) = base(d) + (n - 1) * 15 (medium with 1 section
\* gives 45, hard with 3 sections gives 90), and every lab the template
\* generator returns has estimated_time = base(its difficulty), in [15, 180].
C10_TimeEstimate ==
    /\ (pc = "returned" /\ call.fn = "_estimate_time") =>
          /\ ret = C10_Base(call.difficulty) + (call.num_sections - 1) * 15
          /\ (call.difficulty = "medium" /\ call.num_sections = 1) => ret = 45
          /\ (call.difficulty = "hard" /\ call.num_sections = 3) => ret = 90
    /\ (TemplateDone /\ ~outcome.raised) =>
          /\ outcome.value.lab.estimated_time = C10_Base(outcome.value.lab.difficulty)
          /\ outcome.value.lab.estimated_time >= 15
          /\ outcome.value.lab.estimated_time <= 180

\* _estimate_time("hard", 3) has returned 90
C10_Witness ==
    /\ pc = "returned" /\ call.fn = "_estimate_time"
    /\ call.difficulty = "hard" /\ call.num_sections = 3
    /\ ret = 90

\* the one self.llm.invoke of the call, or the parse and validation of what
\* it returned, failed
ReplyFailed ==
    \/ reply.kind = "raise"
    \/ reply.kind = "content" /\ ~reply.json
    \/ reply.kind = "content" /\ reply.json /\ ~ValidPersonalizedLab(reply.data)

\* the lab is a minimal lab within every constraint of the data model
MinimalValidLab(lab) ==
    /\ lab.difficulty \in Difficulties
    /\ lab.estimated_time >= 15 /\ lab.estimated_time <= 180
    /\ Len(lab.sections) = 1
    /\ lab.sections[1].difficulty \in Difficulties
    /\ lab.sections[1].scaffolding_level \in ScaffoldingLevels
    /\ IsStr(lab.sections[1].concept)
    /\ Len(lab.sections[1].exercises) = 1
    /\ lab.sections[1].exercises[1].type = "guided"
    /\ lab.sections[1].exercises[1].hints \in 0..5

\* a batch driver that writes a summary report has returned
BatchDone == pc = "done" /\ driver \in {"generate_all_labs", "ingestion"}

\* C2 as stated: generate_lab of either generator never lets an exception
\* reach its caller; whatever error arose, also in the error handler, the
\* call returns a result, with success false and the fallback lab when the
\* lab could not be built.
C2_NoExceptionReachesCaller ==
    (TemplateDone \/ ServiceDone) =>
        /\ ~outcome.raised
        /\ phase \in {"SUCCEEDED", "FAILED_FALLBACK"}

\* C3 as stated: whenever the external call or the parse and validation step
\* of the prompted generator fails, the call returns a result with success
\* false, an error message that is a non-empty string, and a minimal lab
\* within the constraints of the data model.
C3_FallbackGuarantee ==
    (ServiceDone /\ ReplyFailed) =>
        /\ ~outcome.raised
        /\ ~outcome.value.success
        /\ IsStr(outcome.value.error)
        /\ outcome.value.error.s # <<>>
        /\ MinimalValidLab(outcome.value.lab)

\* C4 as stated: when a batch driver has iterated its n concepts, the results
\* list and the 'labs' list of the summary report each hold n entries and
\* total_labs = n.
C4_OneRecordPerConcept ==
    BatchDone =>
        /\ Len(ret.results) = Len(concepts)
        /\ Len(summary.labs) = Len(concepts)
        /\ summary.total_labs = Len(concepts)

\* generate_lab for the k-th concept handled did not succeed
GenerationFailed(k) == log[k].outcome.raised \/ ~log[k].outcome.value.success

\* C5 as stated: when generation for concept k fails, every later concept is
\* still passed to the generator and appears in the summary report with its
\* own outcome.
C5_ContinueOnError ==
    BatchDone =>
        \A k \in 1..Len(concepts) :
            (k <= Len(log) /\ GenerationFailed(k)) =>
                \A j \in (k + 1)..Len(concepts) :
                    /\ j <= Len(log)
                    /\ ~log[j].outcome.raised
                    /\ \E m \in 1..Len(summary.labs) :
                          summary.labs[m] = LabInfo(log[j].outcome.value)

\* the result was generated for the concept: its metadata copies the
\* concept's name, definition and topic
ResultFor(result, c) ==
    /\ result.metadata.concept_name = c.name
    /\ result.metadata.concept_definition = c.definition
    /\ result.metadata.source_topic = c.topic

\* C6 as stated: in every batch driver the k-th entry of the returned results
\* list, and of the summary's 'labs' list, is the result for the k-th input
\* concept.
C6_OutputOrderIsInputOrder ==
    /\ pc = "done" =>
          \A k \in 1..Len(results) : ResultFor(results[k], concepts[k])
    /\ BatchDone =>
          \A k \in 1..Len(summary.labs) :
              /\ summary.labs[k].concept = concepts[k].name
              /\ summary.labs[k].topic = concepts[k].topic

\* the kinds and hint counts of a list of exercises, in list order
Shape(exercises) ==
    [k \in 1..Len(exercises) |-> <<exercises[k].type, exercises[k].hints>>]

\* the exercise list the template strategy prescribes for a difficulty
C11_Expected(d) ==
    IF d = "easy" THEN << <<"guided", 3>> >>
    ELSE << <<"guided", 2>>, <<"challenge", 1>> >>

\* C11: _create_exercises gives exactly [guided with 3 hints] for easy and
\* exactly [guided with 2 hints, challenge with 1 hint], in that order, for
\* medium and hard; the section of every lab the template generator builds
\* successfully has that list for the lab's difficulty, and no result of the
\* template generator holds an exploration exercise.
C11_ExerciseConstruction ==
    /\ (pc = "returned" /\ call.fn = "_create_exercises") =>
          Shape(ret) = C11_Expected(call.difficulty)
    /\ (TemplateDone /\ ~outcome.raised) =>
          /\ outcome.value.success =>
                Shape(outcome.value.lab.sections[1].exercises)
                    = C11_Expected(outcome.value.lab.difficulty)
          /\ \A s \in 1..Len(outcome.value.lab.sections) :
                \A k \in 1..Len(outcome.value.lab.sections[s].exercises) :
                    outcome.value.lab.sections[s].exercises[k].type # "exploration"

\* an easy concept got the single guided exercise with 3 hints in a lab the
\* template generator built
C11_Witness ==
    /\ TemplateDone /\ ~outcome.raised /\ outcome.value.success
    /\ outcome.value.lab.difficulty = "easy"
    /\ Shape(outcome.value.lab.sections[1].exercises) = << <<"guided", 3>> >>

\* sanitize_filename has been applied twice to a name
Sanitized == pc = "returned" /\ call.fn = "sanitize_filename"

\* C12 as stated: sanitize_filename(sanitize_filename(x)) = sanitize_filename(x)
\* for every string x and every max_length.
C12_IdempotentForEveryMaxLength ==
    Sanitized => ret.twice = ret.once

\* C12 amended: for every string x and every max_length >= 0,
\* sanitize_filename(sanitize_filename(x)) = sanitize_filename(x), also when
\* x is cut at max_length and the cut leaves trailing underscores or periods;
\* sanitize_filename("CAP Theorem!!") = "CAP_Theorem".
C12_Idempotent ==
    /\ (Sanitized /\ call.max_length >= 0) => ret.twice = ret.once
    /\ (Sanitized /\ call.name = TXT_CapTheorem /\ call.max_length = DefaultMaxLength) =>
          ret.once = <<"C", "A", "P", "_", "T", "h", "e", "o", "r", "e", "m">>

\* a name of 101 characters was cut at 100, the cut left a trailing
\* underscore that was stripped, and the second application changed nothing
C12_Witness ==
    /\ Sanitized
    /\ call.max_length = DefaultMaxLength
    /\ Len(call.name) = 101
    /\ Len(ret.once) = 99
    /\ ret.twice = ret.once

\* organize_lab_output has returned for the current concept
Organized == pc = "persisted" /\ ~saved.raised

\* C13: for every result a generator returns, the simplified file that
\* organize_lab_output wrote, read back and parsed into a PersonalizedLab, is
\* a lab equal field for field to result.lab: absent optional fields, empty
\* test_cases lists and the order of sections and exercises included.
C13_RoundTrip ==
    Organized =>
        LET back == ReadLab(files[saved.value.simplified_file])
        IN  /\ ~back.raised
            /\ back.value = outcome.value.lab

\* a template lab of two exercises, the second with an empty test_cases list
\* and the lab without a personalization context, was written and read back
C13_Witness ==
    /\ Organized
    /\ outcome.value.success
    /\ Len(outcome.value.lab.sections[1].exercises) = 2
    /\ outcome.value.lab.sections[1].exercises[2].test_cases = PyList(<<>>)
    /\ IsNone(outcome.value.lab.personalization_context)
    /\ ReadLab(files[saved.value.simplified_file]).value = outcome.value.lab

\* sanitize_filename(concept_name) of the concept just persisted
SafeName == sanitize_filename(concepts[i].name.s, DefaultMaxLength)

\* the members of a JSON object
Members(doc) == DOMAIN doc.members

\* C14 as stated: after organize_lab_output returns, for a successful and for
\* a fallback result alike, the two returned paths are
\* <sanitize(concept_name)>/<sanitize(concept_name)>_lab.json and
\* <sanitize(concept_name)>/lab_content.json under output_dir, both files
\* exist, the full file holds lab, metadata and success, plus error exactly
\* when the result carries one, and the simplified file holds only the
\* fields of the lab.
C14_TwoArtifacts ==
    Organized =>
        LET full == saved.value.full_lab_file
            simplified == saved.value.simplified_file
            result == outcome.value
        IN  /\ saved.value.concept_dir = JoinPath(<<>>, SafeName)
            /\ full = Append(saved.value.concept_dir, SafeName \o TXT_LabJson)
            /\ simplified = Append(saved.value.concept_dir, TXT_LabContentJson)
            /\ full # simplified
            /\ full \in DOMAIN files /\ simplified \in DOMAIN files
            /\ Members(files[full]) =
                  IF IsNone(result.error) THEN {"lab", "metadata", "success"}
                  ELSE {"lab", "metadata", "success", "error"}
            /\ files[full].members.lab = JsonOfLab(result.lab)
            /\ files[full].members.metadata = JsonOfMetadata(result.metadata)
            /\ files[full].members.success = JBool(result.success)
            /\ ~IsNone(result.error) => files[full].members.error = JsonOfStr(result.error)
            /\ files[simplified] = JsonOfLab(result.lab)
            /\ Members(files[simplified]) =
                  {"title", "topic", "difficulty", "estimated_time", "sections",
                   "prerequisites", "technologies", "personalization_context"}

\* generate_lab of either generator has returned a result
Generated == (TemplateDone \/ ServiceDone) /\ ~outcome.raised

\* C15 as stated: in every result of either generator
\* metadata.personalization_applied is true only if a non-empty context was
\* passed and the result succeeded; it is false for an absent context, for
\* the empty string and for every fallback result.
C15_PersonalizationApplied ==
    Generated =>
        /\ outcome.value.metadata.personalization_applied =>
              (Truthy(ctx) /\ outcome.value.success)
        /\ (IsNone(ctx) \/ ctx = PyStr(<<>>)) =>
              ~outcome.value.metadata.personalization_applied
        /\ ~outcome.value.success => ~outcome.value.metadata.personalization_applied

\* C16: in every result of either generator the error is present only when
\* success is false, so a successful result has no error, and the lab is
\* present on success and on failure.
C16_ErrorOnlyOnFailure ==
    Generated =>
        /\ outcome.value.success => IsNone(outcome.value.error)
        /\ ~IsNone(outcome.value.error) => ~outcome.value.success
        /\ "lab" \in DOMAIN outcome.value
        /\ Len(outcome.value.lab.sections) >= 1

\* the prompted generator returned a successful result, without an error and
\* with the lab that was parsed
C16_Witness ==
    /\ ServiceDone /\ ~outcome.raised
    /\ outcome.value.success
    /\ IsNone(outcome.value.error)
    /\ outcome.value.lab = PersonalizedLab(reply.data)

\* one step of the per-concept state machine: the phase of the current
\* generate_lab call moves only as first argument lets it, ending in one of
\* ends, after which control is back in the caller (its loop, or the end of
\* main() in single mode), and the external service is invoked at most once
\* per call and not again for the concept once the call or the parsing has
\* failed
PhaseStep(ends) ==
    /\ (phase = "START" /\ phase' # phase) => phase' = "BUILDING"
    /\ (phase = "BUILDING" /\ phase' # phase) => phase' \in ends
    /\ (phase \in ends /\ phase' # phase) => (phase' = "START" /\ pc' \in {"loop", "done"})
    /\ llm_calls' <= 1
    /\ (i' = i /\ ReplyFailed) => llm_calls' = llm_calls

\* C17 as stated: each generate_lab call goes START -> BUILDING -> exactly one
\* of SUCCEEDED or FAILED_FALLBACK and then stops; the prompted generator
\* invokes the external service at most once per call and never again for
\* the concept after a failure.
C17_StateMachineNoRetry ==
    [][PhaseStep({"SUCCEEDED", "FAILED_FALLBACK"})]_vars

\* a batch driver has loaded the concepts of the export it was given
Loaded == driver # "none"

\* C18 as stated: the records load_concepts_from_export produces carry only
\* name, definition and topic, text_evidence being discarded, and a record
\* whose enclosing entry has no topic gets the topic "Unknown".
C18_FlattenedRecords ==
    Loaded =>
        /\ \A k \in 1..Len(concepts) :
              DOMAIN concepts[k] = {"name", "definition", "topic"}
        /\ (\A t \in 1..Len(call.export.theories) : ~Has(call.export.theories[t], "topic")) =>
              \A k \in 1..Len(concepts) : concepts[k].topic = PyStr(TXT_Unknown)

\* nothing of a run has happened: no export was loaded, no generate_lab call
\* was made, the external service was not invoked, no file was written
NothingDone ==
    /\ driver = "none" /\ concepts = <<>> /\ i = 0
    /\ phase = "START" /\ llm_calls = 0 /\ outcome = NoOutcome
    /\ results = <<>> /\ log = <<>>
    /\ files = <<>> /\ summary = PyNone

\* C19: when OPENAI_API_KEY is not set, constructing LabGenerationService
\* raises; in main() of ingestion.py, in single mode and in batch mode, this
\* happens before the export is loaded, before any generate_lab call and
\* before any file is written, so nothing of that ever happens without the
\* credential.
C19_MissingCredentialIsFatal ==
    /\ (Has(call, "api_key") /\ ~Truthy(call.api_key)) =>
          /\ pc = "raised"
          /\ ret.raised /\ ret.error = TXT_ApiKeyNotSet
          /\ NothingDone
    /\ driver \in {"single", "ingestion", "service_batch"} => Truthy(call.api_key)

\* main() in batch mode ended at the construction, the variable being unset
C19_Witness ==
    /\ pc = "raised"
    /\ call.fn = "main" /\ call.entry = "batch"
    /\ IsNone(call.api_key)
    /\ ret.raised
    /\ NothingDone

\* the template generator returned its fallback result for a concept whose
\* name and topic are strings
TemplateFallback ==
    /\ TemplateDone /\ ~outcome.raised /\ ~outcome.value.success
    /\ IsStr(concepts[i].name) /\ IsStr(concepts[i].topic)

\* C20 as stated: for the same concept_name and topic the minimal lab of the
\* template generator's failure path equals, field for field, the one the
\* prompted generator's failure path builds.
C20_OneFallbackShape ==
    TemplateFallback =>
        LET other == _create_fallback_lab(concepts[i].name, concepts[i].topic)
        IN  /\ ~other.raised
            /\ outcome.value.lab = other.value

\* C21 as stated: every section of every lab a generator returns, built by
\* the template generator, parsed from the reply of the external service or
\* built as a fallback, has a non-empty concept name; no section is built for
\* an export concept that has no name.
C21_NonEmptyConceptName ==
    Generated =>
        \A s \in 1..Len(outcome.value.lab.sections) :
            /\ IsStr(outcome.value.lab.sections[s].concept)
            /\ outcome.value.lab.sections[s].concept.s # <<>>

\* C22 as stated: in every result of either generator a lab without a
\* personalization_context means that none was requested: when the caller
\* passed a context, the returned lab, successful or fallback, carries one.
C22_AbsentMeansNotRequested ==
    Generated =>
        (~IsNone(ctx) => ~IsNone(outcome.value.lab.personalization_context))

\* the concepts the reader gives for the export of the call
ReaderList == load_concepts_from_export(call.export)

\* the first n items of s, all of s when it has fewer
FirstN(s, n) == [k \in 1..(IF n < Len(s) THEN n ELSE Len(s)) |-> s[k]]

\* C23 as stated: for every limit N >= 0 given to
\* LabIngestionService.generate_batch_labs exactly the first
\* min(N, number of loaded concepts) concepts of the reader's list are
\* processed, in the reader's order, and no other; a limit of 0 processes no
\* concept.
C23_IndexBasedLimit ==
    (driver = "ingestion" /\ ~IsNone(call.limit)) =>
        /\ concepts = FirstN(ReaderList, call.limit.n)
        /\ i <= Len(FirstN(ReaderList, call.limit.n))
        /\ pc = "done" => Len(log) = Len(FirstN(ReaderList, call.limit.n))
        /\ call.limit.n = 0 => (i = 0 /\ log = <<>>)

\* a batch driver that persists what it generates is running
Persisting == driver \in {"generate_all_labs", "ingestion"}

\* the k-th concept was handled to the end of its loop body, and generate_lab
\* returned for it and organize_lab_output wrote its artifacts
Written(k) ==
    /\ k <= Len(log)
    /\ ~log[k].outcome.raised
    /\ Has(log[k].saved, "raised") /\ ~log[k].saved.raised

\* one step of a batch driver keeps the order when: the generator is called
\* for the next concept only after the one before satisfies first argument,
\* no concept is in progress while another is, and the summary is written
\* only after the last concept was handled
SequentialStep(Before(_)) ==
    Persisting =>
        /\ (i' = i + 1 /\ i >= 1) => Before(i)
        /\ pc \in {"generate", "replied", "generated", "persisted"} => Len(log) = i - 1
        /\ pc = "loop" => Len(log) = i
        /\ summary' # summary => (i = Len(concepts) /\ Len(log) = Len(concepts))

\* C24 as stated: in both batch drivers the generator call for concept i
\* returns and its artifacts are written by organize_lab_output before the
\* generator is called for concept i+1; at no time are two concepts in
\* progress, and the summary report is written only after the last concept
\* was handled.
C24_GenerateThenPersist ==
    [][SequentialStep(Written)]_vars


\* the counters of a batch loop agree with the number of concepts handled
CountersAgree ==
    /\ successful + failed = Len(log)
    /\ Len(results) <= successful + failed
    /\ pc = "loop" => Len(log) = i
    /\ pc \in {"generate", "replied", "generated", "persisted"} => Len(log) = i - 1
    /\ pc = "done" =>
           /\ ret.successful + ret.failed = ret.total_concepts
           /\ ret.total_concepts = Len(concepts)
           /\ ret.successful = successful /\ ret.failed = failed
           /\ Len(ret.results) <= ret.successful + ret.failed

\* an iteration ends with exactly one of the two counters grown by one
OneCounterGrows ==
    log' # log =>
        \/ successful' = successful + 1 /\ failed' = failed
        \/ failed' = failed + 1 /\ successful' = successful

\* C25: in generate_all_labs and in LabIngestionService.generate_batch_labs
\* every iteration grows exactly one of successful and failed by one, so
\* successful + failed is the number of concepts handled so far and equals
\* total_concepts in the returned dictionary, whatever mix of successes,
\* fallback results and exceptions occurred, and the collected results never
\* outnumber successful + failed.
C25_CounterInvariant ==
    [][Persisting' => (CountersAgree' /\ (Persisting => OneCounterGrows))]_vars

\* C25 witness: LabIngestionService.generate_batch_labs has returned after one
\* success and one concept whose result['result'] raised KeyError, with fewer
\* results than concepts counted
C25_Witness ==
    /\ BatchDone /\ driver = "ingestion"
    /\ ret.successful = 1 /\ ret.failed = 1
    /\ Len(ret.results) = 1
    /\ \E k \in 1..Len(log) :
          ~Has(generate_single_lab(concepts[k], log[k].outcome, log[k].saved), "result")


\* what organize_lab_output writes for the k-th concept of the batch
ArtifactsOf(k) ==
    organize_lab_output(<<>>, log[k].outcome.value, concepts[k].name, "ok").files

\* no later concept of the batch bears the name of the k-th
NameOfItsOwn(k) ==
    \A j \in 1..Len(concepts) : j > k => concepts[j].name # concepts[k].name

\* C26 as stated: artifacts of one concept are never overwritten by another
\* concept of the same batch: two concepts with different names are written to
\* different directories, and after the batch the files written for the
\* earlier concept are still there with the content written for it, also when
\* the names differ only in characters that sanitize_filename strips or
\* collapses, or when a name sanitizes to the empty string.
C26_NoOverwrite ==
    BatchDone =>
        \A k \in 1..Len(log) :
            (Written(k) /\ NameOfItsOwn(k)) =>
                /\ \A j \in 1..Len(log) :
                       (j > k /\ Written(j)) =>
                           log[j].saved.value.concept_dir # log[k].saved.value.concept_dir
                /\ \A path \in DOMAIN ArtifactsOf(k) :
                       path \in DOMAIN files /\ files[path] = ArtifactsOf(k)[path]

=============================================================================
